---- MODULE Spec2Model ----
(***************************************************************************)
(* dwallet: the withdrawal pipeline (core/withdraw.py), the local          *)
(* transaction ledger tx_local (adapters/storage.py), the broadcaster and  *)
(* receipt waiter (core/broadcaster.py), the builder (core/tx_builder.py)  *)
(* and the signer (core/signer.py).                                        *)
(*                                                                         *)
(* Amounts (wei) are counted in units of 10^5 wei = 0.0001 gwei, so that   *)
(* gas * maxFeePerGas stays inside TLC's integers: 2 gwei is 20000 units.  *)
(***************************************************************************)
EXTENDS Integers, Sequences, FiniteSets, TLC

VARIABLES
    pc,            \* withdraw_eth call p: the step it executes next
    req,           \* withdraw_eth call p: its arguments
    tx,            \* withdraw_eth call p: the draft of build_tx_1559 (local tx)
    chk,           \* withdraw_eth call p: the locals of _ensure_eth_balance_enough while it runs
    signed,        \* withdraw_eth call p: the result of sign_tx_1559 (local signed)
    h2,            \* withdraw_eth call p: the hash send_raw_tx returned (local h2)
    ret,           \* withdraw_eth call p: what the call returned or raised
    steps,         \* withdraw_eth call p: the steps it has executed, in order
    tx_local,      \* the ledger table tx_local: stored hash -> row
    accepted,      \* the node: raw transactions it has accepted
    pendingCount,  \* the node: get_transaction_count(sender, "pending")
    receipts,      \* the node: hash -> receipt status of a mined transaction
    now,           \* int(time.time())
    ks,            \* the keystore of the sender: accounts row, file and key
    wpc,           \* wait_receipt call w: the step it executes next
    wreq,          \* wait_receipt call w: tx_hash, deadline, poll_sec
    wret,          \* wait_receipt call w: the receipt it holds / returned
    dao            \* the last direct call of the ledger's DAO surface and its outcome

vars == <<pc, req, tx, chk, signed, h2, ret, steps, tx_local, accepted, pendingCount,
          receipts, now, ks, wpc, wreq, wret, dao>>

procVars == <<pc, req, tx, chk, signed, h2, ret, steps>>
netVars == <<accepted, pendingCount, receipts>>
waitVars == <<wpc, wreq, wret>>

----------------------------------------------------------------------------
(* Bounds of the model *)

MaxTime == 1

Procs == {"p1", "p2"}      \* the withdraw_eth calls that may run concurrently
WaitProcs == {"p1"}        \* the withdraw_eth calls that run beside wait_receipt
Waiters == {"w1"}          \* the wait_receipt calls

----------------------------------------------------------------------------
(* Optional values: Python's None and a present value *)

Null == {}
Some(x) == {x}
Get(o) == CHOOSE v \in o : TRUE

(* Strings whose letter case matters: an address is a body and the case it
   is written in, a hex string is a body, its case and whether it starts
   with "0x".  str.lower() keeps the rest and makes the case "lower";
   Web3.to_checksum_address makes it "checksum". *)
Str(body, cs) == [body |-> body, cs |-> cs]
Hex(pfx, body, cs) == [pfx |-> pfx, body |-> body, cs |-> cs]
Lower(s) == [s EXCEPT !.cs = "lower"]
ToChecksumAddress(a) == [a EXCEPT !.cs = "checksum"]

(* HexBytes.hex() of the pinned hexbytes (>= 1.0, required by web3 7's
   web3.middleware.proof_of_authority): lowercase digits, no "0x" prefix. *)
HexOf(bytes) == Hex(FALSE, bytes, "lower")

(* str(value_wei): the decimal string of an integer *)
DecStr(v) == <<"dec", v>>

----------------------------------------------------------------------------
(* adapters/storage.py: the tx_local table *)

Statuses == {"SIGNED", "BROADCAST", "CONFIRMED"}

(* the key under which a hash string is stored and looked up: hash_hex.lower() *)
HashKey(hash_hex) == Lower(hash_hex)

(* bytes.fromhex(raw_hex[2:]) if (raw_hex and raw_hex.startswith('0x')) else None *)
RawBlob(raw_hex) ==
    IF raw_hex # Null /\ Get(raw_hex).pfx THEN Some(Get(raw_hex).body) ELSE Null

Row(sender, to, value_wei, nonce, chain_id, status, raw_hex, submitted_at, ts) ==
    [ sender       |-> Lower(sender),
      to           |-> IF to # Null THEN Some(Lower(Get(to))) ELSE Null,
      value_wei    |-> DecStr(value_wei),
      nonce        |-> nonce,
      chain_id     |-> chain_id,
      status       |-> status,
      raw          |-> RawBlob(raw_hex),
      submitted_at |-> submitted_at,
      updated_at   |-> ts ]

(* the INSERT overwrites the row of an existing hash (INSERT OR REPLACE) *)
InsertOrReplace(db, hash_hex, row) ==
    [ ok |-> TRUE,
      db |-> [k \in DOMAIN db \cup {HashKey(hash_hex)} |->
                 IF k = HashKey(hash_hex) THEN row ELSE db[k]] ]

(* INSERT INTO tx_local ...: hash is the PRIMARY KEY, so the INSERT of a hash
   that is present raises sqlite3.IntegrityError and writes nothing. *)
InsertRow(db, hash_hex, row) ==
    IF HashKey(hash_hex) \in DOMAIN db
    THEN [ ok |-> FALSE, db |-> db ]
    ELSE [ ok |-> TRUE,
           db |-> [k \in DOMAIN db \cup {HashKey(hash_hex)} |->
                      IF k = HashKey(hash_hex) THEN row ELSE db[k]] ]

(* insert_tx_local: the row it builds and the INSERT *)
insert_tx_local(db, hash_hex, sender, to, value_wei, nonce, chain_id, status, raw_hex, submitted_at, ts) ==
    InsertRow(db, hash_hex,
              Row(sender, to, value_wei, nonce, chain_id, status, raw_hex, submitted_at, ts))

(* the update of an absent hash creates a row for it *)
UpdateUpserts(db, hash_hex, status, submitted_at, ts) ==
    [k \in DOMAIN db \cup {HashKey(hash_hex)} |->
        IF k # HashKey(hash_hex) THEN db[k]
        ELSE IF k \in DOMAIN db
        THEN [db[k] EXCEPT !.status = status,
                           !.submitted_at = IF submitted_at # Null THEN submitted_at ELSE @,
                           !.updated_at = ts]
        ELSE [ sender |-> Str("", "lower"), to |-> Null, value_wei |-> DecStr(0), nonce |-> 0,
               chain_id |-> 0, status |-> status, raw |-> Null,
               submitted_at |-> submitted_at, updated_at |-> ts ]]

(* the UPDATE has no WHERE clause: it writes every row *)
UpdateWithoutWhere(db, hash_hex, status, submitted_at, ts) ==
    [k \in DOMAIN db |->
        [db[k] EXCEPT !.status = status,
                      !.submitted_at = IF submitted_at # Null THEN submitted_at ELSE @,
                      !.updated_at = ts]]

(* the UPDATE writes submitted_at as given, also when it is None *)
UpdateOverwritesSubmittedAt(db, hash_hex, status, submitted_at, ts) ==
    IF HashKey(hash_hex) \in DOMAIN db
    THEN [db EXCEPT ![HashKey(hash_hex)] =
             [@ EXCEPT !.status = status, !.submitted_at = submitted_at, !.updated_at = ts]]
    ELSE db

(* update_tx_status: UPDATE tx_local SET status = ?, submitted_at =
   COALESCE(?, submitted_at), updated_at = ? WHERE hash = ?.  No row matches
   an absent hash: nothing is written and nothing is raised. *)
update_tx_status(db, hash_hex, status, submitted_at, ts) ==
    IF HashKey(hash_hex) \in DOMAIN db
    THEN [db EXCEPT ![HashKey(hash_hex)] =
             [@ EXCEPT !.status = status,
                       !.submitted_at = IF submitted_at # Null THEN submitted_at ELSE @,
                       !.updated_at = ts]]
    ELSE db

(* get_tx: the row of a hash, or None *)
get_tx(db, hash_hex) ==
    IF HashKey(hash_hex) \in DOMAIN db THEN Some(db[HashKey(hash_hex)]) ELSE Null

----------------------------------------------------------------------------
(* core/tx_builder.py *)

MinPriorityFee == 1          \* 0.0001 gwei
MaxPriorityFee == 20000      \* 2.0 gwei
MinGasTransfer == 21000
MinGasCall == 50000
FallbackGasTransfer == 50000
FallbackGasCall == 100000

Max(a, b) == IF a >= b THEN a ELSE b
Min(a, b) == IF a <= b THEN a ELSE b

DefaultPriorityFee == 20000  \* 2.0 gwei
MinSpreadTip == 1000         \* 0.1 gwei

RECURSIVE SumSeq(_)
SumSeq(q) == IF q = <<>> THEN 0 ELSE Head(q) + SumSeq(Tail(q))

(* [reward[1] for reward in fee_history['reward'] if reward and len(reward) > 1] *)
RECURSIVE RecentTips(_)
RecentTips(rewards) ==
    IF rewards = <<>> THEN <<>>
    ELSE (IF Len(Head(rewards)) > 1 THEN <<Head(rewards)[2]>> ELSE <<>>)
            \o RecentTips(Tail(rewards))

(* the strategies of suggest_fees_1559 for the priority fee when the hint is
   None, each given by what the node answered (None: the query raised):
   max_fee the answer of eth_maxPriorityFeePerGas, history the reward rows
   of eth_feeHistory, spread the gas price and the latest block's base fee.
   Each yields the fee, or None when the strategy fails. *)
FromNode(max_fee) == max_fee
FromHistory(history) ==
    IF history = Null \/ RecentTips(Get(history)) = <<>> THEN Null
    ELSE Some(SumSeq(RecentTips(Get(history))) \div Len(RecentTips(Get(history))))
FromSpread(spread) ==
    IF spread = Null \/ Get(spread).base_fee <= 0 THEN Null
    ELSE Some(Max(((Get(spread).gas_price - Get(spread).base_fee) * 4) \div 5, MinSpreadTip))

(* the fee history is consulted first, the node's recommendation second *)
PriorityFeeHistoryFirst(hint, max_fee, history, spread) ==
    IF hint # Null THEN [fee |-> Get(hint), queried |-> <<>>]
    ELSE IF FromHistory(history) # Null
    THEN [fee |-> Get(FromHistory(history)), queried |-> <<"fee_history">>]
    ELSE IF FromNode(max_fee) # Null
    THEN [fee |-> Get(FromNode(max_fee)), queried |-> <<"fee_history", "max_priority_fee">>]
    ELSE IF FromSpread(spread) # Null
    THEN [fee |-> Get(FromSpread(spread)),
          queried |-> <<"fee_history", "max_priority_fee", "gas_price">>]
    ELSE [fee |-> DefaultPriorityFee,
          queried |-> <<"fee_history", "max_priority_fee", "gas_price">>]

(* the priority fee before the clamp and the strategies queried for it, in
   the order of the queries *)
PriorityFee(hint, max_fee, history, spread) ==
    IF hint # Null THEN [fee |-> Get(hint), queried |-> <<>>]
    ELSE IF FromNode(max_fee) # Null
    THEN [fee |-> Get(FromNode(max_fee)), queried |-> <<"max_priority_fee">>]
    ELSE IF FromHistory(history) # Null
    THEN [fee |-> Get(FromHistory(history)), queried |-> <<"max_priority_fee", "fee_history">>]
    ELSE IF FromSpread(spread) # Null
    THEN [fee |-> Get(FromSpread(spread)),
          queried |-> <<"max_priority_fee", "fee_history", "gas_price">>]
    ELSE [fee |-> DefaultPriorityFee,
          queried |-> <<"max_priority_fee", "fee_history", "gas_price">>]

(* the priority fee is not clamped *)
SuggestFeesUnclamped(priority_fee, base, gas_price) ==
    IF base = Null
    THEN [ baseFeePerGas |-> Null, maxPriorityFeePerGas |-> 0,
           maxFeePerGas |-> gas_price, legacyGasPrice |-> gas_price ]
    ELSE [ baseFeePerGas |-> base, maxPriorityFeePerGas |-> priority_fee,
           maxFeePerGas |-> Get(base) * 2 + priority_fee ]

(* the legacy branch computes the fee cap like the EIP-1559 branch *)
SuggestFeesNoLegacy(priority_fee, base, gas_price) ==
    LET clamped == Min(Max(priority_fee, MinPriorityFee), MaxPriorityFee)
    IN  IF base = Null
        THEN [ baseFeePerGas |-> Null, maxPriorityFeePerGas |-> clamped,
               maxFeePerGas |-> gas_price * 2 + clamped ]
        ELSE [ baseFeePerGas |-> base, maxPriorityFeePerGas |-> clamped,
               maxFeePerGas |-> Get(base) * 2 + clamped ]

(* the tip is left out of the fee cap *)
SuggestFeesWithoutTip(priority_fee, base, gas_price) ==
    LET clamped == Min(Max(priority_fee, MinPriorityFee), MaxPriorityFee)
    IN  IF base = Null
        THEN [ baseFeePerGas |-> Null, maxPriorityFeePerGas |-> 0,
               maxFeePerGas |-> gas_price, legacyGasPrice |-> gas_price ]
        ELSE [ baseFeePerGas |-> base, maxPriorityFeePerGas |-> clamped,
               maxFeePerGas |-> Get(base) * 2 ]

(* suggest_fees_1559 from the clamp on: priority_fee is the hint (or what the
   fallback cascade produced), base the pending block's baseFeePerGas or
   None, gas_price the node's eth_gasPrice. *)
suggest_fees_1559(priority_fee, base, gas_price) ==
    LET clamped == Min(Max(priority_fee, MinPriorityFee), MaxPriorityFee)
    IN  IF base = Null
        THEN [ baseFeePerGas |-> Null, maxPriorityFeePerGas |-> 0,
               maxFeePerGas |-> gas_price, legacyGasPrice |-> gas_price ]
        ELSE [ baseFeePerGas |-> base, maxPriorityFeePerGas |-> clamped,
               maxFeePerGas |-> Get(base) * 2 + clamped ]

(* data if data not in (None, "", "0x", "0X") else None *)
DraftData(data) == IF data \in {Null, Some(""), Some("0x"), Some("0X")} THEN Null ELSE data

(* the caller's gas limit is ignored: the gas is always estimated *)
GasLimitAlwaysEstimated(gas_limit, est, data) ==
    IF est # Null
    THEN Max((Get(est) * 3) \div 2,
             IF DraftData(data) # Null THEN MinGasCall ELSE MinGasTransfer)
    ELSE IF DraftData(data) # Null THEN FallbackGasCall ELSE FallbackGasTransfer

(* if gas_limit is None: estimate_gas is called *)
EstimateCalled(gas_limit) == gas_limit = Null

(* the gas limit of build_tx_1559: the caller's, or int(est * 1.5) floored at
   the minimum, or the fallback when estimate_gas raised (est = None) *)
GasLimit(gas_limit, est, data) ==
    IF gas_limit # Null THEN Get(gas_limit)
    ELSE IF est # Null
         THEN Max((Get(est) * 3) \div 2,
                  IF DraftData(data) # Null THEN MinGasCall ELSE MinGasTransfer)
         ELSE IF DraftData(data) # Null THEN FallbackGasCall ELSE FallbackGasTransfer

(* every key is kept, a None value with it *)
KeepNone(d) == [k \in DOMAIN d |-> IF d[k] = Null THEN Null ELSE Get(d[k])]

(* `if to`: a recipient is given when it is neither None nor the empty string *)
HasRecipient(to) == to # Null /\ Get(to).body # ""

(* {k: v for k, v in d.items() if v is not None}, d given with optional values *)
DropNone(d) == [k \in {x \in DOMAIN d : d[x] # Null} |-> Get(d[k])]

(* build_tx_1559: the draft from the arguments and what the node answered
   (nonce: pending transaction count, fees: suggest_fees_1559, est: the
   estimate or None) *)
build_tx_1559(chain_id, from_addr, to, value_wei, data, gas_limit, nonce, fees, est) ==
    DropNone([ from    |-> Some(ToChecksumAddress(from_addr)),
               to      |-> IF HasRecipient(to) THEN Some(ToChecksumAddress(Get(to))) ELSE Null,
               value   |-> Some(value_wei),
               data    |-> DraftData(data),
               chainId |-> Some(chain_id),
               maxFeePerGas |-> Some(fees.maxFeePerGas),
               maxPriorityFeePerGas |-> Some(fees.maxPriorityFeePerGas),
               type    |-> Some(2),
               gas     |-> Some(GasLimit(gas_limit, est, data)),
               nonce   |-> Some(nonce) ])

----------------------------------------------------------------------------
(* core/signer.py *)

KeystorePassword == "pw"
Passwords == {"pw", "bad"}

(* what the accounts table and the keystore directory can hold for an address:
   registered (a row in accounts), file (the keystore file exists), and the
   address of the key in the file *)
KeystoreStates(addr) ==
    { [registered |-> TRUE,  file |-> TRUE,  key |-> ToChecksumAddress(addr)],
      [registered |-> FALSE, file |-> FALSE, key |-> ToChecksumAddress(addr)],
      [registered |-> TRUE,  file |-> FALSE, key |-> ToChecksumAddress(addr)],
      [registered |-> TRUE,  file |-> TRUE,  key |-> Str("ee", "checksum")] }

(* the keystore is opened whatever the password *)
LoadPrivkeyNoPassword(k, password) ==
    IF ~k.registered THEN Some("ACCOUNT_NOT_FOUND")
    ELSE IF ~k.file THEN Some("KEYSTORE_MISSING")
    ELSE Null

(* _load_privkey_from_keystore: the error it raises, or None *)
LoadPrivkeyError(k, password) ==
    IF ~k.registered THEN Some("ACCOUNT_NOT_FOUND")
    ELSE IF ~k.file THEN Some("KEYSTORE_MISSING")
    ELSE IF password # KeystorePassword THEN Some("BAD_PASSWORD")
    ELSE Null

RequiredFields == {"chainId", "nonce", "gas", "maxFeePerGas", "maxPriorityFeePerGas"}

(* tx_norm: dict(tx) with type = 2 (the draft holds no None) *)
TxNorm(t) == [k \in DOMAIN t \cup {"type"} |-> IF k = "type" THEN 2 ELSE t[k]]

(* the bytes acct.sign_transaction produces, and their keccak hash: both are
   functions of the signed fields (signing is deterministic, RFC 6979) *)
RawBytes(tx_norm) == [rlp |-> tx_norm]
Keccak(bytes) == [keccak |-> bytes]

(* sign_tx_1559: the error it raises, or {"raw", "hash", "tx"} *)
sign_tx_1559(address, password, t, k) ==
    IF RequiredFields \ DOMAIN TxNorm(t) # {}
    THEN [ error |-> Some("MISSING_FIELDS") ]
    ELSE IF LoadPrivkeyError(k, password) # Null
    THEN [ error |-> LoadPrivkeyError(k, password) ]
    ELSE IF Lower(k.key) # Lower(address)
    THEN [ error |-> Some("ADDRESS_MISMATCH") ]
    ELSE [ error |-> Null,
           raw   |-> HexOf(RawBytes(TxNorm(t))),
           hash  |-> HexOf(Keccak(RawBytes(TxNorm(t)))),
           tx    |-> [kk \in DOMAIN TxNorm(t) \cup {"from"} |->
                         IF kk = "from" THEN k.key ELSE TxNorm(t)[kk]] ]

----------------------------------------------------------------------------
(* core/withdraw.py *)

(* the guard compares the balance with the value alone, without the gas *)
InsufficientFundsNoGas(bal, value_wei, gas_limit, max_fee_per_gas) ==
    bal < value_wei

InsufficientFundsAtLimit(bal, value_wei, gas_limit, max_fee_per_gas) ==
    bal <= value_wei + gas_limit * max_fee_per_gas

(* _ensure_eth_balance_enough: whether it raises INSUFFICIENT_FUNDS *)
InsufficientFunds(bal, value_wei, gas_limit, max_fee_per_gas) ==
    bal < value_wei + gas_limit * max_fee_per_gas

Running == {"guard", "check", "sign", "insert", "send", "update"}

(* the arguments withdraw_eth is called with *)
Requests ==
    [ chain_id : {8453},
      from_addr : {Str("aa", "mixed")},
      to : {Some(Str("dd", "mixed"))},
      value_wei : {1},
      password : Passwords,
      priority_fee_gwei : {20000},
      gas_limit : {Null} ]

(* what the node answers to the builder's and the guard's queries *)
BaseFees == {Null, Some(1)}
GasPrices == {3}
Estimates == {Null, Some(21000)}
Balances == {0, 1 + 21000 * 20002, 1 + 50000 * 20002}

(* what send_raw_transaction raises: the node's refusal, or a transport
   error, after which the node may have taken the bytes all the same *)
SendErrors == {"nonce too low", "ConnectionError"}

(* the hash the node reports for raw bytes it accepted: their keccak, or, on
   a node that disagrees, an identifier of its own *)
NodeHashes(bytes) == {Keccak(bytes), [foreign |-> bytes]}

Step(p, name, next) ==
    /\ pc' = [pc EXCEPT ![p] = next]
    /\ steps' = [steps EXCEPT ![p] = Append(@, name)]

Raise(p, name, error) ==
    /\ Step(p, name, "failed")
    /\ ret' = [ret EXCEPT ![p] = Some([kind |-> "raise", error |-> error])]

(* the sender is compared as given, not lowercased *)
MaxNonceCaseSensitive(db, sender, chain_id) ==
    LET ns == {db[k].nonce : k \in {j \in DOMAIN db : /\ db[j].sender = sender
                                                       /\ db[j].chain_id = chain_id}}
    IN  IF ns = {} THEN Null ELSE Some(CHOOSE n \in ns : \A m \in ns : m <= n)

(* SELECT MAX(nonce) FROM tx_local WHERE sender = ? AND chain_id = ? *)
max_local_nonce(db, sender, chain_id) ==
    LET ns == {db[k].nonce : k \in {j \in DOMAIN db : /\ db[j].sender = Lower(sender)
                                                       /\ db[j].chain_id = chain_id}}
    IN  IF ns = {} THEN Null ELSE Some(CHOOSE n \in ns : \A m \in ns : m <= n)

(* the nonce is reserved locally: one above the highest nonce of the ledger *)
BuildReservesNonce(p) ==
    /\ pc[p] = "idle"
    /\ \E r \in Requests, base \in BaseFees, gp \in GasPrices, est \in Estimates :
          LET loc == max_local_nonce(tx_local, r.from_addr, r.chain_id)
              nonce == IF loc = Null THEN pendingCount ELSE Max(pendingCount, Get(loc) + 1)
          IN  /\ req' = [req EXCEPT ![p] = Some(r)]
              /\ tx' = [tx EXCEPT ![p] =
                           Some(build_tx_1559(r.chain_id, r.from_addr, r.to, r.value_wei, Null,
                                              r.gas_limit, nonce,
                                              suggest_fees_1559(r.priority_fee_gwei, base, gp),
                                              est))]
    /\ Step(p, "build", "guard")
    /\ UNCHANGED <<chk, signed, h2, ret, tx_local, netVars, now, ks, waitVars, dao>>

(* the nonce is taken from the ledger when it holds rows of the sender *)
BuildNonceFromLedger(p) ==
    /\ pc[p] = "idle"
    /\ \E r \in Requests, base \in BaseFees, gp \in GasPrices, est \in Estimates :
          LET loc == max_local_nonce(tx_local, r.from_addr, r.chain_id)
              nonce == IF loc = Null THEN pendingCount ELSE Get(loc) + 1
          IN  /\ req' = [req EXCEPT ![p] = Some(r)]
              /\ tx' = [tx EXCEPT ![p] =
                           Some(build_tx_1559(r.chain_id, r.from_addr, r.to, r.value_wei, Null,
                                              r.gas_limit, nonce,
                                              suggest_fees_1559(r.priority_fee_gwei, base, gp),
                                              est))]
    /\ Step(p, "build", "guard")
    /\ UNCHANGED <<chk, signed, h2, ret, tx_local, netVars, now, ks, waitVars, dao>>

(* withdraw_eth step 1: build_tx_1559 (nonce, fees, gas) *)
Build(p) ==
    /\ pc[p] = "idle"
    /\ \E r \in Requests, base \in BaseFees, gp \in GasPrices, est \in Estimates :
          /\ req' = [req EXCEPT ![p] = Some(r)]
          /\ tx' = [tx EXCEPT ![p] =
                       Some(build_tx_1559(r.chain_id, r.from_addr, r.to, r.value_wei, Null,
                                          r.gas_limit, pendingCount,
                                          suggest_fees_1559(r.priority_fee_gwei, base, gp),
                                          est))]
    /\ Step(p, "build", "guard")
    /\ UNCHANGED <<chk, signed, h2, ret, tx_local, netVars, now, ks, waitVars, dao>>

(* a node query of step 1 or step 2 raises (transport error, RPC_URL_NOT_SET) *)
RpcError(p) ==
    /\ \/ /\ pc[p] = "idle"
          /\ \E r \in Requests : req' = [req EXCEPT ![p] = Some(r)]
          /\ Raise(p, "build", "RPC_ERROR")
       \/ /\ pc[p] = "guard"
          /\ req' = req
          /\ Raise(p, "guard", "RPC_ERROR")
    /\ UNCHANGED <<tx, chk, signed, h2, tx_local, netVars, now, ks, waitVars, dao>>

(* withdraw_eth step 2: suggest_fees_1559 again, then
   _ensure_eth_balance_enough reads the balance *)
GuardRead(p) ==
    /\ pc[p] = "guard"
    /\ \E base \in BaseFees, gp \in GasPrices, bal \in Balances :
          chk' = [chk EXCEPT ![p] =
                     Some([ bal |-> bal,
                            value_wei |-> Get(req[p]).value_wei,
                            gas_limit |-> Get(tx[p])["gas"],
                            max_fee_per_gas |->
                                suggest_fees_1559(Get(req[p]).priority_fee_gwei, base, gp).maxFeePerGas ])]
    /\ pc' = [pc EXCEPT ![p] = "check"]
    /\ UNCHANGED <<req, tx, signed, h2, ret, steps, tx_local, netVars, now, ks, waitVars, dao>>

(* _ensure_eth_balance_enough: if bal < need: raise INSUFFICIENT_FUNDS *)
GuardCheck(p) ==
    /\ pc[p] = "check"
    /\ LET c == Get(chk[p])
       IN  IF InsufficientFunds(c.bal, c.value_wei, c.gas_limit, c.max_fee_per_gas)
           THEN Raise(p, "guard", "INSUFFICIENT_FUNDS")
           ELSE Step(p, "guard", "sign") /\ ret' = ret
    /\ chk' = [chk EXCEPT ![p] = Null]
    /\ UNCHANGED <<req, tx, signed, h2, tx_local, netVars, now, ks, waitVars, dao>>

(* withdraw_eth step 3: sign_tx_1559 *)
Sign(p) ==
    /\ pc[p] = "sign"
    /\ LET r == Get(req[p])
           s == sign_tx_1559(r.from_addr, r.password, Get(tx[p]), ks)
       IN  IF s.error # Null
           THEN Raise(p, "sign", Get(s.error)) /\ signed' = signed
           ELSE /\ Step(p, "sign", "insert")
                /\ signed' = [signed EXCEPT ![p] = Some(s)]
                /\ ret' = ret
    /\ UNCHANGED <<req, tx, chk, h2, tx_local, netVars, now, ks, waitVars, dao>>

(* step 4 writes nothing and the withdrawal goes on to the broadcast *)
InsertSkipped(p) ==
    /\ pc[p] = "insert"
    /\ Step(p, "insert", "send")
    /\ UNCHANGED <<req, tx, chk, signed, h2, ret, tx_local, netVars, now, ks, waitVars, dao>>

(* step 4 writes the row as BROADCAST already *)
InsertBroadcastEarly(p) ==
    /\ pc[p] = "insert"
    /\ LET r == Get(req[p])
           s == Get(signed[p])
           i == insert_tx_local(tx_local, s.hash, r.from_addr, r.to, r.value_wei,
                                Get(tx[p])["nonce"], r.chain_id, "BROADCAST", Some(s.raw),
                                Null, now)
       IN  IF i.ok
           THEN Step(p, "insert", "send") /\ tx_local' = i.db /\ ret' = ret
           ELSE Raise(p, "insert", "IntegrityError") /\ tx_local' = i.db
    /\ UNCHANGED <<req, tx, chk, signed, h2, netVars, now, ks, waitVars, dao>>

(* the duplicate hash is ignored (INSERT OR IGNORE) and the withdrawal goes on *)
InsertIgnoresDuplicate(p) ==
    /\ pc[p] = "insert"
    /\ LET r == Get(req[p])
           s == Get(signed[p])
           i == insert_tx_local(tx_local, s.hash, r.from_addr, r.to, r.value_wei,
                                Get(tx[p])["nonce"], r.chain_id, "SIGNED", Some(s.raw),
                                Null, now)
       IN  Step(p, "insert", "send") /\ tx_local' = i.db /\ ret' = ret
    /\ UNCHANGED <<req, tx, chk, signed, h2, netVars, now, ks, waitVars, dao>>

(* withdraw_eth step 4: insert_tx_local(..., status="SIGNED", raw_hex=signed["raw"]) *)
Insert(p) ==
    /\ pc[p] = "insert"
    /\ LET r == Get(req[p])
           s == Get(signed[p])
           i == insert_tx_local(tx_local, s.hash, r.from_addr, r.to, r.value_wei,
                                Get(tx[p])["nonce"], r.chain_id, "SIGNED", Some(s.raw),
                                Null, now)
       IN  IF i.ok
           THEN Step(p, "insert", "send") /\ tx_local' = i.db /\ ret' = ret
           ELSE Raise(p, "insert", "IntegrityError") /\ tx_local' = i.db
    /\ UNCHANGED <<req, tx, chk, signed, h2, netVars, now, ks, waitVars, dao>>

(* the node takes raw bytes into its pool *)
NodeAccept(bytes) ==
    /\ accepted' = accepted \cup {bytes}
    /\ pendingCount' = IF bytes.rlp["nonce"] = pendingCount /\ bytes \notin accepted
                       THEN pendingCount + 1 ELSE pendingCount

(* withdraw_eth step 5: send_raw_tx returns the hash the node reports *)
SendOk(p) ==
    /\ pc[p] = "send"
    /\ \E h \in NodeHashes(Get(signed[p]).raw.body) :
          h2' = [h2 EXCEPT ![p] = Some(HexOf(h))]
    /\ NodeAccept(Get(signed[p]).raw.body)
    /\ Step(p, "send", "update")
    /\ UNCHANGED <<req, tx, chk, signed, ret, tx_local, receipts, now, ks, waitVars, dao>>

(* a failed broadcast is swallowed: the sign-time hash is taken for h2 *)
SendFailSwallowed(p) ==
    /\ pc[p] = "send"
    /\ h2' = [h2 EXCEPT ![p] = Some(Get(signed[p]).hash)]
    /\ Step(p, "send", "update")
    /\ UNCHANGED <<req, tx, chk, signed, ret, tx_local, netVars, now, ks, waitVars, dao>>

(* a failed broadcast deletes the SIGNED row before it raises *)
SendFailCleanup(p) ==
    /\ pc[p] = "send"
    /\ \E e \in SendErrors :
          /\ Raise(p, "send", e)
          /\ \/ UNCHANGED <<accepted, pendingCount>>
             \/ e = "ConnectionError" /\ NodeAccept(Get(signed[p]).raw.body)
    /\ tx_local' = [k \in DOMAIN tx_local \ {HashKey(Get(signed[p]).hash)} |-> tx_local[k]]
    /\ UNCHANGED <<req, tx, chk, signed, h2, receipts, now, ks, waitVars, dao>>

(* a failed broadcast marks the row FAILED before it raises *)
SendFailMarksFailed(p) ==
    /\ pc[p] = "send"
    /\ \E e \in SendErrors :
          /\ Raise(p, "send", e)
          /\ \/ UNCHANGED <<accepted, pendingCount>>
             \/ e = "ConnectionError" /\ NodeAccept(Get(signed[p]).raw.body)
    /\ tx_local' = update_tx_status(tx_local, Get(signed[p]).hash, "FAILED", Null, now)
    /\ UNCHANGED <<req, tx, chk, signed, h2, receipts, now, ks, waitVars, dao>>

(* a failed broadcast is tried once more before the error is raised *)
SendFailRetries(p) ==
    /\ pc[p] = "send"
    /\ \E e \in SendErrors :
          /\ IF \E i \in DOMAIN steps[p] : steps[p][i] = "send"
             THEN Raise(p, "send", e)
             ELSE Step(p, "send", "send") /\ ret' = ret
          /\ \/ UNCHANGED <<accepted, pendingCount>>
             \/ e = "ConnectionError" /\ NodeAccept(Get(signed[p]).raw.body)
    /\ UNCHANGED <<req, tx, chk, signed, h2, tx_local, receipts, now, ks, waitVars, dao>>

(* withdraw_eth step 5: send_raw_tx raises; the node refused the bytes, or
   the transport failed, before the node took them or after *)
SendFail(p) ==
    /\ pc[p] = "send"
    /\ \E e \in SendErrors :
          /\ Raise(p, "send", e)
          /\ \/ UNCHANGED <<accepted, pendingCount>>
             \/ e = "ConnectionError" /\ NodeAccept(Get(signed[p]).raw.body)
    /\ UNCHANGED <<req, tx, chk, signed, h2, tx_local, receipts, now, ks, waitVars, dao>>

(* withdraw_eth: update_tx_status(h2, "BROADCAST", submitted_at=int(time.time()))
   and the return of {"hash": h2, "raw", "tx"} *)
Update(p) ==
    /\ pc[p] = "update"
    /\ tx_local' = update_tx_status(tx_local, Get(h2[p]), "BROADCAST", Some(now), now)
    /\ ret' = [ret EXCEPT ![p] = Some([kind |-> "return", hash |-> Get(h2[p]),
                                       raw |-> Get(signed[p]).raw,
                                       tx |-> Get(signed[p]).tx])]
    /\ Step(p, "update", "done")
    /\ UNCHANGED <<req, tx, chk, signed, h2, netVars, now, ks, waitVars, dao>>

(* the process stops between two steps of a withdrawal *)
Crash(p) ==
    /\ pc[p] \in Running
    /\ pc' = [pc EXCEPT ![p] = "crashed"]
    /\ UNCHANGED <<req, tx, chk, signed, h2, ret, steps, tx_local, netVars, now, ks, waitVars, dao>>

(* a wait_receipt call is inside its loop, before its deadline or asleep *)
Waiting(w) ==
    /\ wpc[w] \in {"poll", "sleep"}
    /\ now < Get(wreq[w]).deadline \/ now < Get(wreq[w]).wake

(* time passes: up to MaxTime, and on while a wait_receipt call waits for it *)
Tick ==
    /\ now < MaxTime \/ \E w \in DOMAIN wpc : Waiting(w)
    /\ now' = now + 1
    /\ UNCHANGED <<procVars, tx_local, netVars, ks, waitVars, dao>>

----------------------------------------------------------------------------

Init ==
    /\ pc = [p \in Procs |-> "idle"]
    /\ req = [p \in Procs |-> Null]
    /\ tx = [p \in Procs |-> Null]
    /\ signed = [p \in Procs |-> Null]
    /\ chk = [p \in Procs |-> Null]
    /\ h2 = [p \in Procs |-> Null]
    /\ ret = [p \in Procs |-> Null]
    /\ steps = [p \in Procs |-> <<>>]
    /\ tx_local = <<>>
    /\ accepted = {}
    /\ pendingCount = 0
    /\ receipts = <<>>
    /\ now = 0
    /\ ks \in KeystoreStates(Str("aa", "mixed"))
    /\ wpc = [w \in Waiters |-> "idle"]
    /\ wreq = [w \in Waiters |-> Null]
    /\ wret = [w \in Waiters |-> Null]
    /\ dao = Null

(* concurrent withdraw_eth calls against one node and one ledger *)
Next ==
    \/ \E p \in Procs : Build(p)
    \/ \E p \in Procs : RpcError(p)
    \/ \E p \in Procs : GuardRead(p)
    \/ \E p \in Procs : GuardCheck(p)
    \/ \E p \in Procs : Sign(p)
    \/ \E p \in Procs : Insert(p)
    \/ \E p \in Procs : SendOk(p)
    \/ \E p \in Procs : SendFail(p)
    \/ \E p \in Procs : Update(p)
    \/ \E p \in Procs : Crash(p)
    \/ Tick

Spec == Init /\ [][Next]_vars

----------------------------------------------------------------------------
(* the node mines an accepted transaction: one per nonce; the receipt has
   status 1, status 0, or no status field *)

ReceiptStatuses == {Some(1), Some(0), Null}

Mine ==
    /\ \E bytes \in accepted \ DOMAIN receipts, st \in ReceiptStatuses :
          /\ \A b \in DOMAIN receipts : b.rlp["nonce"] # bytes.rlp["nonce"]
          /\ receipts' = [b \in DOMAIN receipts \cup {bytes} |->
                             IF b = bytes THEN [status |-> st] ELSE receipts[b]]
    /\ UNCHANGED <<procVars, tx_local, accepted, pendingCount, now, ks, waitVars, dao>>

(* w3.eth.get_transaction_receipt(tx_hash): the receipt of the mined
   transaction the node knows under that hash, or None when there is none *)
ReceiptOf(tx_hash) ==
    LET hit == {b \in DOMAIN receipts : tx_hash.body \in NodeHashes(b)}
    IN  IF hit = {} THEN Null ELSE Some(receipts[CHOOSE b \in hit : TRUE])

----------------------------------------------------------------------------
(* core/withdraw.py wait_receipt over core/broadcaster.py wait_receipt *)

Timeouts == {-1, 0, 1, 2}
PollSecs == {0, 1}

(* the hashes a caller holds: those persisted in the ledger and those
   withdraw_eth returned *)
HeldHashes ==
    {Hex(k.pfx, k.body, k.cs) : k \in DOMAIN tx_local}
        \cup {Get(ret[p]).hash : p \in {q \in Procs : pc[q] = "done"}}

(* wait_receipt is called: deadline = time.time() + timeout_sec *)
WaitCall(w) ==
    /\ wpc[w] = "idle"
    /\ \E h \in HeldHashes, t \in Timeouts, ps \in PollSecs :
          wreq' = [wreq EXCEPT ![w] =
                      Some([tx_hash |-> h, timeout_sec |-> t, deadline |-> now + t,
                            poll_sec |-> ps, wake |-> now, looked |-> FALSE, last |-> Null])]
    /\ wpc' = [wpc EXCEPT ![w] = "poll"]
    /\ UNCHANGED <<procVars, tx_local, netVars, now, ks, wret, dao>>

(* what a lookup that gives no receipt does: it returns None, raises
   TransactionNotFound ("... not found"), or raises another error *)
LookupFailures == {"None", "TransactionNotFound", "ConnectionError"}

(* only "not found" is retried: another lookup error leaves the call *)
WaitLookupRaises(w) ==
    /\ wpc[w] = "poll"
    /\ now < Get(wreq[w]).deadline
    /\ \/ /\ ReceiptOf(Get(wreq[w]).tx_hash) # Null
          /\ wret' = [wret EXCEPT ![w] = ReceiptOf(Get(wreq[w]).tx_hash)]
          /\ wpc' = [wpc EXCEPT ![w] = "got"]
          /\ wreq' = wreq
       \/ /\ \E e \in LookupFailures :
                /\ wreq' = [wreq EXCEPT ![w] =
                               Some([Get(@) EXCEPT !.wake = now + Get(wreq[w]).poll_sec,
                                                   !.looked = TRUE, !.last = Some(e)])]
                /\ wpc' = [wpc EXCEPT ![w] = IF e = "ConnectionError" THEN "raised" ELSE "sleep"]
          /\ wret' = wret
    /\ UNCHANGED <<procVars, tx_local, netVars, now, ks, dao>>

(* the lookup comes before the test of the deadline (a do-while loop) *)
WaitLookupPastDeadline(w) ==
    /\ wpc[w] = "poll"
    /\ \/ /\ ReceiptOf(Get(wreq[w]).tx_hash) # Null
          /\ wret' = [wret EXCEPT ![w] = ReceiptOf(Get(wreq[w]).tx_hash)]
          /\ wpc' = [wpc EXCEPT ![w] = "got"]
          /\ wreq' = wreq
       \/ /\ now < Get(wreq[w]).deadline
          /\ \E e \in LookupFailures :
                wreq' = [wreq EXCEPT ![w] =
                            Some([Get(@) EXCEPT !.wake = now + Get(wreq[w]).poll_sec,
                                                !.looked = TRUE, !.last = Some(e)])]
          /\ wret' = wret
          /\ wpc' = [wpc EXCEPT ![w] = "sleep"]
    /\ UNCHANGED <<procVars, tx_local, netVars, now, ks, dao>>

(* one pass of the loop before the deadline: the lookup returns a receipt
   (FOUND), or it yields nothing or raises and the loop sleeps poll_sec *)
WaitLookup(w) ==
    /\ wpc[w] = "poll"
    /\ now < Get(wreq[w]).deadline
    /\ \/ /\ ReceiptOf(Get(wreq[w]).tx_hash) # Null
          /\ wret' = [wret EXCEPT ![w] = ReceiptOf(Get(wreq[w]).tx_hash)]
          /\ wpc' = [wpc EXCEPT ![w] = "got"]
          /\ wreq' = wreq
       \/ /\ \E e \in LookupFailures :
                wreq' = [wreq EXCEPT ![w] =
                            Some([Get(@) EXCEPT !.wake = now + Get(wreq[w]).poll_sec,
                                                !.looked = TRUE, !.last = Some(e)])]
          /\ wret' = wret
          /\ wpc' = [wpc EXCEPT ![w] = "sleep"]
    /\ UNCHANGED <<procVars, tx_local, netVars, now, ks, dao>>

(* time.sleep(poll_sec) is over *)
WaitWake(w) ==
    /\ wpc[w] = "sleep"
    /\ now >= Get(wreq[w]).wake
    /\ wpc' = [wpc EXCEPT ![w] = "poll"]
    /\ UNCHANGED <<procVars, tx_local, netVars, now, ks, wreq, wret, dao>>

(* the loop has no deadline: it goes on polling *)
WaitWithoutDeadline(w) ==
    /\ wpc[w] = "poll"
    /\ now >= Get(wreq[w]).deadline
    /\ wpc' = [wpc EXCEPT ![w] = "sleep"]
    /\ UNCHANGED <<procVars, tx_local, netVars, now, ks, wreq, wret, dao>>

(* the loop condition fails: the deadline has passed, return None (TIMED_OUT) *)
WaitTimeout(w) ==
    /\ wpc[w] = "poll"
    /\ now >= Get(wreq[w]).deadline
    /\ wret' = [wret EXCEPT ![w] = Null]
    /\ wpc' = [wpc EXCEPT ![w] = "got"]
    /\ UNCHANGED <<procVars, tx_local, netVars, now, ks, wreq, dao>>

ReceiptSucceededAny(r) == r # Null

ReceiptSucceededOrNone(r) == r = Null \/ Get(r).status = Some(1)

(* r and int(r.get("status", 0)) == 1 *)
ReceiptSucceeded(r) == r # Null /\ Get(r).status = Some(1)

(* core/withdraw.py wait_receipt after _wait returned r: the update to
   CONFIRMED when r reports success, and the return of r *)
WaitFinish(w) ==
    /\ wpc[w] = "got"
    /\ tx_local' = IF ReceiptSucceeded(wret[w])
                   THEN update_tx_status(tx_local, Get(wreq[w]).tx_hash, "CONFIRMED", Null, now)
                   ELSE tx_local
    /\ wpc' = [wpc EXCEPT ![w] = "done"]
    /\ UNCHANGED <<procVars, netVars, now, ks, wreq, wret, dao>>

(* a withdrawal, the node mining, and wait_receipt calls on held hashes *)
NextWait ==
    \/ \E p \in WaitProcs : Build(p)
    \/ \E p \in WaitProcs : RpcError(p)
    \/ \E p \in WaitProcs : GuardRead(p)
    \/ \E p \in WaitProcs : GuardCheck(p)
    \/ \E p \in WaitProcs : Sign(p)
    \/ \E p \in WaitProcs : Insert(p)
    \/ \E p \in WaitProcs : SendOk(p)
    \/ \E p \in WaitProcs : SendFail(p)
    \/ \E p \in WaitProcs : Update(p)
    \/ \E p \in WaitProcs : Crash(p)
    \/ Tick
    \/ Mine
    \/ \E w \in Waiters : WaitCall(w)
    \/ \E w \in Waiters : WaitLookup(w)
    \/ \E w \in Waiters : WaitWake(w)
    \/ \E w \in Waiters : WaitTimeout(w)
    \/ \E w \in Waiters : WaitFinish(w)

SpecWait == Init /\ [][NextWait]_vars

(* the clock advances, and the thread of a wait_receipt call keeps running:
   a lookup returns or raises (the HTTP request has a timeout), a sleep ends *)
SpecWaitFair ==
    /\ SpecWait
    /\ WF_vars(Tick)
    /\ \A w \in Waiters : /\ WF_vars(WaitLookup(w))
                           /\ WF_vars(WaitWake(w))
                           /\ WF_vars(WaitTimeout(w))

----------------------------------------------------------------------------
(* the ledger's DAO surface called directly (adapters/storage.py) *)

DaoHashes == { Hex(TRUE, "h1", "lower"), Hex(TRUE, "h1", "mixed"), Hex(TRUE, "h2", "lower") }
DaoSenders == { Str("aa", "mixed"), Str("bb", "lower") }
DaoNonces == {0, 1}

(* insert_tx_local(hash_hex, sender, to, value_wei, nonce, chain_id, status) *)
DaoInsert ==
    /\ \E h \in DaoHashes, sender \in DaoSenders, nonce \in DaoNonces, st \in Statuses :
          LET i == insert_tx_local(tx_local, h, sender, Some(Str("dd", "mixed")), 1, nonce,
                                   8453, st, Null, Null, now)
          IN  /\ tx_local' = i.db
              /\ dao' = Some([ op |-> "insert_tx_local", hash |-> h, status |-> st,
                               ok |-> i.ok ])
    /\ UNCHANGED <<procVars, netVars, now, ks, waitVars>>

(* update_tx_status(hash_hex, status, submitted_at) *)
DaoUpdate ==
    /\ \E h \in DaoHashes, st \in Statuses, sub \in {Null, Some(now)} :
          /\ tx_local' = update_tx_status(tx_local, h, st, sub, now)
          /\ dao' = Some([ op |-> "update_tx_status", hash |-> h, status |-> st,
                           ok |-> TRUE ])
    /\ UNCHANGED <<procVars, netVars, now, ks, waitVars>>

(* direct calls of insert_tx_local and update_tx_status, and time *)
NextDao ==
    \/ DaoInsert
    \/ DaoUpdate
    \/ Tick

InitDao == Init /\ ks.registered /\ ks.file /\ Lower(ks.key) = Lower(Str("aa", "mixed"))

SpecDao == InitDao /\ [][NextDao]_vars

(* direct calls of insert_tx_local and max_local_nonce: rows of two senders
   on two chains, and the question asked with the sender in another case *)
NonceHashes == { Hex(TRUE, "h1", "lower"), Hex(TRUE, "h2", "lower"), Hex(TRUE, "h3", "lower") }
NonceValues == {0, 1, 2}
NonceChains == {1, 8453}
NonceStatuses == {"SIGNED", "CONFIRMED"}
NonceQuerySenders == { Str("aa", "upper"), Str("cc", "lower") }

NonceInsert ==
    /\ \E h \in NonceHashes, sender \in DaoSenders, nonce \in NonceValues,
          chain_id \in NonceChains, st \in NonceStatuses :
          LET i == insert_tx_local(tx_local, h, sender, Some(Str("dd", "mixed")), 1, nonce,
                                   chain_id, st, Null, Null, now)
          IN  /\ tx_local' = i.db
              /\ dao' = Some([ op |-> "insert_tx_local", ok |-> i.ok ])
    /\ UNCHANGED <<procVars, netVars, now, ks, waitVars>>

(* max_local_nonce(sender, chain_id) *)
MaxNonceCall ==
    /\ \E sender \in NonceQuerySenders, chain_id \in NonceChains :
          dao' = Some([ op |-> "max_local_nonce", sender |-> sender, chain_id |-> chain_id,
                        result |-> max_local_nonce(tx_local, sender, chain_id) ])
    /\ UNCHANGED <<procVars, tx_local, netVars, now, ks, waitVars>>

NextNonce ==
    \/ NonceInsert
    \/ MaxNonceCall

SpecNonce == InitDao /\ [][NextNonce]_vars

----------------------------------------------------------------------------
(* the helpers of the withdrawal called on their own, one call in a
   behaviour; dao holds the arguments and the outcome of the call *)

MaxWei == 7
GuardValues == 0..2
GuardGasLimits == 0..2
GuardMaxFees == 0..2

(* _ensure_eth_balance_enough(chain_id, from_addr, value_wei, gas_limit,
   max_fee_per_gas) with the balance the node reports *)
EnsureBalanceCall ==
    /\ dao = Null
    /\ \E bal \in 0..MaxWei, v \in GuardValues, g \in GuardGasLimits, f \in GuardMaxFees :
          dao' = Some([ op |-> "_ensure_eth_balance_enough", bal |-> bal, value_wei |-> v,
                        gas_limit |-> g, max_fee_per_gas |-> f,
                        raised |-> IF InsufficientFunds(bal, v, g, f)
                                   THEN Some("INSUFFICIENT_FUNDS") ELSE Null ])
    /\ UNCHANGED <<procVars, tx_local, netVars, now, ks, waitVars>>

MaxBaseFee == 3
FeeHints == {0, 1, 2, 19999, 20000, 20001, 30000}
CallBaseFees == {Null} \cup {Some(b) : b \in 0..MaxBaseFee}
CallGasPrices == {0, 3}

(* suggest_fees_1559(w3, priority_fee_gwei) with the pending block's base
   fee and the gas price the node reports *)
SuggestFeesCall ==
    /\ dao = Null
    /\ \E pf \in FeeHints, base \in CallBaseFees, gp \in CallGasPrices :
          dao' = Some([ op |-> "suggest_fees_1559", priority_fee |-> pf, base |-> base,
                        gas_price |-> gp, result |-> suggest_fees_1559(pf, base, gp) ])
    /\ UNCHANGED <<procVars, tx_local, netVars, now, ks, waitVars>>

NodeMaxFees == {Null, Some(0), Some(15000), Some(50000)}
FeeHistories ==
    { Null, Some(<<>>), Some(<< <<1>>, <<>> >>), Some(<< <<1, 3, 5>>, <<2, 4, 6>>, <<9>> >>),
      Some(<< <<1, 30000, 5>>, <<2, 30001, 6>> >>) }
Spreads ==
    {Null} \cup {Some([gas_price |-> gp, base_fee |-> b]) : gp \in {0, 3, 1500, 40000},
                                                           b \in {0, 1, 10}}

(* suggest_fees_1559(w3, priority_fee_gwei) with a hint or with None and the
   node's answers to the strategies' queries *)
SuggestFeesAutoCall ==
    /\ dao = Null
    /\ \E hint \in {Null} \cup {Some(pf) : pf \in FeeHints}, base \in CallBaseFees,
          gp \in CallGasPrices, mf \in NodeMaxFees, fh \in FeeHistories, sp \in Spreads :
          LET src == PriorityFee(hint, mf, fh, sp)
          IN  dao' = Some([ op |-> "suggest_fees_1559", hint |-> hint, max_fee |-> mf,
                            history |-> fh, spread |-> sp, queried |-> src.queried,
                            priority_fee |-> src.fee, base |-> base, gas_price |-> gp,
                            result |-> suggest_fees_1559(src.fee, base, gp) ])
    /\ UNCHANGED <<procVars, tx_local, netVars, now, ks, waitVars>>

CallGasLimits == {Null, Some(0), Some(20999), Some(21000), Some(60000)}
CallEstimates == {Null, Some(0), Some(13999), Some(14000), Some(21000), Some(21001),
                  Some(33333), Some(33334)}
CallData == {Null, Some(""), Some("0x"), Some("0X"), Some("0xa9059cbb")}
CallRecipients == {Null, Some(Str("", "lower")), Some(Str("dd", "mixed"))}

(* build_tx_1559(chain_id, from_addr, to, value_wei, data, gas_limit): the gas
   of the draft; estimate_gas is called only when gas_limit is None, and
   est = None stands for an estimate that raised *)
BuildGasCall ==
    /\ dao = Null
    /\ \E gl \in CallGasLimits, data \in CallData, to \in CallRecipients :
        \E est \in IF EstimateCalled(gl) THEN CallEstimates ELSE {Null} :
          LET draft == build_tx_1559(8453, Str("aa", "mixed"), to, 1,
                                     data, gl, pendingCount,
                                     suggest_fees_1559(MaxPriorityFee, Some(1), 3), est)
          IN  dao' = Some([ op |-> "build_tx_1559", gas_limit |-> gl, data |-> data,
                            estimate_called |-> EstimateCalled(gl),
                            est |-> est, has_data |-> "data" \in DOMAIN draft,
                            gas |-> draft["gas"], to |-> to,
                            fields |-> DOMAIN draft, type |-> draft["type"] ])
    /\ UNCHANGED <<procVars, tx_local, netVars, now, ks, waitVars>>

----------------------------------------------------------------------------
(* configs/chain_registry.py.  A string is its lowercase text as a sequence
   of tokens (words, separators, decimal numerals), the case it is written
   in, and whether whitespace surrounds it. *)

Word(w) == [w |-> w]
Dec(n) == [digits |-> n]
ChainStr(body, cs, pad) == [body |-> body, cs |-> cs, pad |-> pad]
Key(body) == ChainStr(body, "lower", FALSE)

(* chains.yaml: the chains of the docstring of resolve_chain_id *)
ChainsYaml ==
    << [chainId |-> 1,        name |-> ChainStr(<<Word("ethereum"), Word(" "), Word("mainnet")>>, "mixed", FALSE)],
       [chainId |-> 8453,     name |-> ChainStr(<<Word("base"), Word(" "), Word("mainnet")>>, "mixed", FALSE)],
       [chainId |-> 84532,    name |-> ChainStr(<<Word("base"), Word(" "), Word("sepolia")>>, "mixed", FALSE)],
       [chainId |-> 11155111, name |-> ChainStr(<<Word("sepolia")>>, "mixed", FALSE)] >>

(* s.lower(), s.strip(), s.isdigit(), str(n), int(s), w in s *)
StrLower(s) == [s EXCEPT !.cs = "lower"]
StrStrip(s) == [s EXCEPT !.pad = FALSE]
IsDigit(s) == ~s.pad /\ Len(s.body) = 1 /\ "digits" \in DOMAIN s.body[1]
StrOfInt(n) == Key(<<Dec(n)>>)
IntOfStr(s) == s.body[1].digits
Contains(s, w) == s.cs = "lower" /\ \E i \in DOMAIN s.body : s.body[i] = Word(w)

(* mapping[key] = chain_id *)
Put(mapping, key, chain_id) ==
    [k \in DOMAIN mapping \cup {key} |-> IF k = key THEN chain_id ELSE mapping[k]]

(* the keys build_chain_mapping adds for one chain, in the order it adds them *)
ChainKeys(chain) ==
    LET name == StrLower(chain.name)
    IN  <<StrOfInt(chain.chainId), name>>
        \o (IF Contains(name, "ethereum") /\ Contains(name, "mainnet")
            THEN <<Key(<<Word("ethereum")>>), Key(<<Word("eth")>>), Key(<<Word("mainnet")>>)>>
            ELSE <<>>)
        \o (IF Contains(name, "base") /\ Contains(name, "mainnet")
            THEN <<Key(<<Word("base")>>)>>
            ELSE IF Contains(name, "base") /\ Contains(name, "sepolia")
            THEN <<Key(<<Word("base"), Word("-"), Word("sepolia")>>), Key(<<Word("basesepolia")>>)>>
            ELSE <<>>)
        \o (IF Contains(name, "sepolia") /\ ~Contains(name, "base")
            THEN <<Key(<<Word("sepolia")>>), Key(<<Word("eth"), Word("-"), Word("sepolia")>>)>>
            ELSE <<>>)

RECURSIVE PutAll(_, _, _)
PutAll(mapping, keys, chain_id) ==
    IF keys = <<>> THEN mapping
    ELSE PutAll(Put(mapping, Head(keys), chain_id), Tail(keys), chain_id)

RECURSIVE build_chain_mapping(_)
build_chain_mapping(chains) ==
    IF chains = <<>> THEN <<>>
    ELSE LET n == Len(chains)
         IN  PutAll(build_chain_mapping(SubSeq(chains, 1, n - 1)),
                    ChainKeys(chains[n]), chains[n].chainId)

get_chain_mapping == build_chain_mapping(ChainsYaml)

(* sorted(set(k for k in mapping.keys() if not k.isdigit())) *)
available_chains == {k \in DOMAIN get_chain_mapping : ~IsDigit(k)}

(* the lookup without strip() *)
ResolveWithoutStrip(chain) ==
    IF "int" \in DOMAIN chain THEN [ok |-> TRUE, id |-> chain.int]
    ELSE IF IsDigit(chain) THEN [ok |-> TRUE, id |-> IntOfStr(chain)]
    ELSE LET chain_lower == StrLower(chain)
         IN  IF chain_lower \in DOMAIN get_chain_mapping
             THEN [ok |-> TRUE, id |-> get_chain_mapping[chain_lower]]
             ELSE [ok |-> FALSE, error |-> "Unknown chain identifier",
                   available |-> available_chains]

(* resolve_chain_id(chain): chain is an int or a string *)
resolve_chain_id(chain) ==
    IF "int" \in DOMAIN chain THEN [ok |-> TRUE, id |-> chain.int]
    ELSE IF IsDigit(chain) THEN [ok |-> TRUE, id |-> IntOfStr(chain)]
    ELSE LET chain_lower == StrStrip(StrLower(chain))
         IN  IF chain_lower \in DOMAIN get_chain_mapping
             THEN [ok |-> TRUE, id |-> get_chain_mapping[chain_lower]]
             ELSE [ok |-> FALSE, error |-> "Unknown chain identifier",
                   available |-> available_chains]

(* the identifiers callers pass: chain ids, configured or not, as ints and
   as decimal strings, chain names, aliases and an unknown name, in any case,
   with and without surrounding whitespace *)
ChainIdInputs == {1, 8453, 84532, 11155111, 999}
ChainTexts ==
    { <<Word("ethereum"), Word(" "), Word("mainnet")>>, <<Word("base"), Word(" "), Word("mainnet")>>,
      <<Word("base"), Word(" "), Word("sepolia")>>, <<Word("sepolia")>>,
      <<Word("ethereum")>>, <<Word("eth")>>, <<Word("mainnet")>>, <<Word("base")>>,
      <<Word("base"), Word("-"), Word("sepolia")>>, <<Word("basesepolia")>>,
      <<Word("eth"), Word("-"), Word("sepolia")>>, <<Word("polygon")>> }
ChainInputs ==
    {[int |-> n] : n \in ChainIdInputs}
        \cup {ChainStr(<<Dec(n)>>, "lower", pad) : n \in ChainIdInputs, pad \in BOOLEAN}
        \cup {ChainStr(b, cs, pad) : b \in ChainTexts, cs \in {"lower", "upper", "mixed"},
                                     pad \in BOOLEAN}

(* resolve_chain_id(chain) *)
ResolveCall ==
    /\ dao = Null
    /\ \E chain \in ChainInputs :
          dao' = Some([ op |-> "resolve_chain_id", chain |-> chain,
                        result |-> resolve_chain_id(chain) ])
    /\ UNCHANGED <<procVars, tx_local, netVars, now, ks, waitVars>>

(* core/tx_builder.py and core/broadcaster.py: _rpc_url_for_chain (the same
   code in both).  A chain of chains.yaml is its chainId and its rpc entry:
   None when the chain has no rpc key, else the list of URLs.  The
   environment gives each variable RPC_URL__<chain_id> a string or nothing. *)
RpcChainIds == {1, 8453, 999}
RpcFirst(id) == IF id = 1 THEN "cfg1a" ELSE "cfg8453a"
RpcSecond(id) == IF id = 1 THEN "cfg1b" ELSE "cfg8453b"
RpcLists(id) == {Null, Some(<<>>), Some(<<RpcFirst(id)>>), Some(<<RpcFirst(id), RpcSecond(id)>>)}
RpcChains ==
    {<<>>} \cup {<<[chainId |-> 1, rpc |-> r1], [chainId |-> 8453, rpc |-> r2]>> :
                    r1 \in RpcLists(1), r2 \in RpcLists(8453)}
RpcEnvs == {e \in [RpcChainIds -> {Null, Some(""), Some("env1"), Some("env8453"), Some("env999")}] :
              \A id \in RpcChainIds :
                 e[id] \in {Null, Some("")}
                    \/ e[id] = Some(CASE id = 1 -> "env1" [] id = 8453 -> "env8453"
                                        [] OTHER -> "env999")}

(* get_chain_config: the first chain with that chainId, or None for the
   ValueError raised when there is none *)
get_chain_config(chains, chain_id) ==
    LET hit == {i \in DOMAIN chains : chains[i].chainId = chain_id}
    IN  IF hit = {} THEN Null
        ELSE Some(chains[CHOOSE i \in hit : \A j \in hit : i <= j])

(* chain_config.get('rpc', []) *)
RpcUrls(chain_config) == IF chain_config.rpc = Null THEN <<>> ELSE Get(chain_config.rpc)

(* the configured URL is taken before the environment is looked at *)
RpcUrlConfigFirst(env, chains, chain_id) ==
    LET cfg == get_chain_config(chains, chain_id)
        url == env[chain_id]
    IN  IF cfg # Null /\ RpcUrls(Get(cfg)) # <<>>
        THEN [ok |-> TRUE, url |-> RpcUrls(Get(cfg))[1]]
        ELSE IF url # Null /\ url # Some("")
        THEN [ok |-> TRUE, url |-> Get(url)]
        ELSE [ok |-> FALSE, error |-> "RPC_URL_NOT_SET"]

(* _rpc_url_for_chain(chain_id): os.getenv(key) if truthy, else rpc_urls[0]
   of the chain's configuration, else ValueError("RPC_URL_NOT_SET: ...") *)
rpc_url_for_chain(env, chains, chain_id) ==
    LET url == env[chain_id]
        cfg == get_chain_config(chains, chain_id)
    IN  IF url # Null /\ url # Some("")
        THEN [ok |-> TRUE, url |-> Get(url)]
        ELSE IF cfg # Null /\ RpcUrls(Get(cfg)) # <<>>
        THEN [ok |-> TRUE, url |-> RpcUrls(Get(cfg))[1]]
        ELSE [ok |-> FALSE, error |-> "RPC_URL_NOT_SET"]

(* _rpc_url_for_chain(chain_id) under an environment and a chains.yaml *)
RpcUrlCall ==
    /\ dao = Null
    /\ \E env \in RpcEnvs, chains \in RpcChains, chain_id \in RpcChainIds :
          dao' = Some([ op |-> "_rpc_url_for_chain", env |-> env, chains |-> chains,
                        chain_id |-> chain_id,
                        result |-> rpc_url_for_chain(env, chains, chain_id) ])
    /\ UNCHANGED <<procVars, tx_local, netVars, now, ks, waitVars>>

NextCalls ==
    \/ EnsureBalanceCall
    \/ SuggestFeesCall
    \/ SuggestFeesAutoCall
    \/ BuildGasCall
    \/ ResolveCall
    \/ RpcUrlCall

SpecCalls == InitDao /\ [][NextCalls]_vars

----------------------------------------------------------------------------
(* Properties *)

Last(s) == s[Len(s)]
Executed(p, name) == \E i \in DOMAIN steps[p] : steps[p][i] = name
FailedAt(p, name) == pc[p] = "failed" /\ Last(steps[p]) = name
RaisedError(p, error) == ret[p] = Some([kind |-> "raise", error |-> error])
Returned(p) == ret[p] # Null /\ Get(ret[p]).kind = "return"

(* the key of the row of p's signed transaction: its sign-time hash, lowercased *)
SignKey(p) == [Get(signed[p]).hash EXCEPT !.cs = "lower"]
(* the key under which the ledger holds raw bytes: the hex of their keccak *)
KeyOfBytes(b) == [pfx |-> FALSE, body |-> [keccak |-> b], cs |-> "lower"]
(* p wrote its row in step 4 and has not executed the status update *)
InsertedNotUpdated(p) ==
    Executed(p, "insert") /\ ~FailedAt(p, "insert") /\ ~Executed(p, "update")

(* C1: the row is in the ledger, inserted by step 4, when step 5 calls
   send_raw_tx; and a row becomes BROADCAST only in the update of a call
   whose send_raw_tx returned a hash for bytes the node accepted. *)
C1_SignedBeforeBroadcast ==
    [][ \A p \in Procs :
          /\ (pc[p] = "send" /\ Len(steps'[p]) > Len(steps[p]))
                => /\ Executed(p, "insert")
                   /\ SignKey(p) \in DOMAIN tx_local
                   /\ tx_local[SignKey(p)].status = "SIGNED"
          /\ \A k \in DOMAIN tx_local' :
                (tx_local'[k].status = "BROADCAST"
                    /\ (k \notin DOMAIN tx_local \/ tx_local[k].status # "BROADCAST"))
                => \E q \in Procs :
                      /\ pc[q] = "update" /\ pc'[q] = "done"
                      /\ h2[q] # Null
                      /\ k = [Get(h2[q]) EXCEPT !.cs = "lower"]
                      /\ Get(signed[q]).raw.body \in accepted
      ]_vars

C1_Witness ==
    \E p \in Procs :
        /\ pc[p] = "done"
        /\ steps[p] = <<"build", "guard", "sign", "insert", "send", "update">>
        /\ tx_local[SignKey(p)].status = "BROADCAST"

(* C2: withdraw_eth returns {hash, raw, tx} only after its send_raw_tx
   returned that hash for bytes the node accepted; a withdrawal that failed
   raised, and returned nothing. *)
C2_NeverReportedUnsent ==
    \A p \in Procs :
        /\ Returned(p) =>
              /\ pc[p] = "done"
              /\ Executed(p, "send")
              /\ h2[p] # Null /\ Get(ret[p]).hash = Get(h2[p])
              /\ Get(signed[p]).raw.body \in accepted
        /\ pc[p] = "failed" => ret[p] # Null /\ Get(ret[p]).kind = "raise"

C2_Witness ==
    \E p, q \in Procs : Returned(p) /\ FailedAt(q, "send")

(* C3: every raw transaction the node has taken from withdraw_eth has a row
   in the ledger under its sign-time hash, also after a crash and after a
   failed broadcast. *)
C3_NeverLost ==
    \A b \in accepted : KeyOfBytes(b) \in DOMAIN tx_local

C3_Witness ==
    \E p, q \in Procs :
        /\ FailedAt(p, "send") /\ Get(signed[p]).raw.body \in accepted
        /\ pc[q] = "crashed" /\ Last(steps[q]) = "send"

(* C4: every row of the ledger was written by a withdrawal that passed step
   4 (a withdrawal stopped before it leaves none); the row of a withdrawal
   that passed step 4 and has not run the status update is there with
   status SIGNED; a BROADCAST row is the row of bytes the node accepted. *)
C4_CrashSafety ==
    /\ \A k \in DOMAIN tx_local :
          \E p \in Procs :
              Executed(p, "insert") /\ ~FailedAt(p, "insert") /\ SignKey(p) = k
    /\ \A p \in Procs :
          InsertedNotUpdated(p) =>
              SignKey(p) \in DOMAIN tx_local /\ tx_local[SignKey(p)].status = "SIGNED"
    /\ \A k \in DOMAIN tx_local :
          tx_local[k].status = "BROADCAST" => \E b \in accepted : k = KeyOfBytes(b)

C4_Witness ==
    \E p, q \in Procs :
        /\ pc[p] = "crashed" /\ Last(steps[p]) = "sign" /\ signed[p] # Null
        /\ SignKey(p) \notin DOMAIN tx_local
        /\ pc[q] = "crashed" /\ Last(steps[q]) = "send"
        /\ tx_local[SignKey(q)].status = "SIGNED"

(* C5: when the balance the guard read is below value + gas_limit *
   max_fee_per_gas, withdraw_eth raises INSUFFICIENT_FUNDS there: nothing is
   signed, the ledger and the node are untouched, and the call stops after
   the guard. *)
C5_InsufficientFundsAborts ==
    [][ \A p \in Procs :
          /\ (pc[p] = "check" /\ pc'[p] \notin {"check", "crashed"}
                /\ Get(chk[p]).bal < Get(req[p]).value_wei
                                       + Get(tx[p])["gas"] * Get(chk[p]).max_fee_per_gas)
                => /\ pc'[p] = "failed"
                   /\ ret'[p] = Some([kind |-> "raise", error |-> "INSUFFICIENT_FUNDS"])
                   /\ signed'[p] = Null
                   /\ tx_local' = tx_local /\ accepted' = accepted
          /\ (ret'[p] = Some([kind |-> "raise", error |-> "INSUFFICIENT_FUNDS"]))
                => /\ pc'[p] = "failed"
                   /\ steps'[p] = <<"build", "guard">>
                   /\ signed'[p] = Null /\ h2'[p] = Null
      ]_vars

C5_Witness ==
    \E p \in Procs : FailedAt(p, "guard") /\ RaisedError(p, "INSUFFICIENT_FUNDS")

(* the error the signer raises for a keystore and a password, or None *)
ExpectedSignError(p) ==
    IF ~ks.registered THEN Some("ACCOUNT_NOT_FOUND")
    ELSE IF ~ks.file THEN Some("KEYSTORE_MISSING")
    ELSE IF Get(req[p]).password # "pw" THEN Some("BAD_PASSWORD")
    ELSE IF ks.key.body # Get(req[p]).from_addr.body THEN Some("ADDRESS_MISMATCH")
    ELSE Null

(* C6: when the account is not registered, the keystore file is missing, the
   password is wrong or the key is another address's, step 3 raises that
   error: no signature, the ledger unchanged, and send_raw_tx never called. *)
C6_SignFailureAborts ==
    [][ \A p \in Procs :
          /\ (pc[p] = "sign" /\ pc'[p] \notin {"sign", "crashed"}
                /\ ExpectedSignError(p) # Null)
                => /\ pc'[p] = "failed"
                   /\ ret'[p] = Some([kind |-> "raise", error |-> Get(ExpectedSignError(p))])
                   /\ signed'[p] = Null
                   /\ tx_local' = tx_local /\ accepted' = accepted
          /\ (pc'[p] = "failed" /\ Last(steps'[p]) = "sign")
                => /\ steps'[p] = <<"build", "guard", "sign">>
                   /\ signed'[p] = Null /\ h2'[p] = Null
      ]_vars

C6_Witness ==
    \E p \in Procs : FailedAt(p, "sign") /\ RaisedError(p, "BAD_PASSWORD")

(* C7: a failing send_raw_tx raises the node's or the transport's error as
   it is and writes nothing; the row stays, SIGNED, with submitted_at null,
   and the call has broadcast once. *)
C7_BroadcastFailureKeepsSigned ==
    [][ \A p \in Procs :
          /\ (pc[p] = "send" /\ pc'[p] = "failed")
                => /\ tx_local' = tx_local
                   /\ ret'[p] \in {Some([kind |-> "raise", error |-> e]) :
                                      e \in {"nonce too low", "ConnectionError"}}
          /\ (pc'[p] = "failed" /\ Last(steps'[p]) = "send")
                => /\ SignKey(p)' \in DOMAIN tx_local'
                   /\ tx_local'[SignKey(p)'].status = "SIGNED"
                   /\ tx_local'[SignKey(p)'].submitted_at = Null
                   /\ Cardinality({i \in DOMAIN steps'[p] : steps'[p][i] = "send"}) = 1
      ]_vars

C7_Witness ==
    \E p \in Procs :
        /\ FailedAt(p, "send") /\ RaisedError(p, "nonce too low")
        /\ tx_local[SignKey(p)].status = "SIGNED"

Rank(status) ==
    CASE status = "SIGNED" -> 1
      [] status = "BROADCAST" -> 2
      [] status = "CONFIRMED" -> 3
      [] OTHER -> 0

(* C8: no step moves the status of a row backward in the order
   SIGNED < BROADCAST < CONFIRMED. *)
C8_StatusMonotonic ==
    [][ \A k \in DOMAIN tx_local :
          k \in DOMAIN tx_local'
             /\ Rank(tx_local'[k].status) >= Rank(tx_local[k].status) ]_vars

(* C9: a row is created SIGNED, and its status changes only from SIGNED to
   BROADCAST and from BROADCAST to CONFIRMED. *)
C9_StatusInOrder ==
    [][ \A k \in DOMAIN tx_local' :
          IF k \notin DOMAIN tx_local
          THEN tx_local'[k].status = "SIGNED"
          ELSE \/ tx_local'[k].status = tx_local[k].status
               \/ tx_local[k].status = "SIGNED" /\ tx_local'[k].status = "BROADCAST"
               \/ tx_local[k].status = "BROADCAST" /\ tx_local'[k].status = "CONFIRMED"
      ]_vars

(* C10: insert_tx_local of a hash whose lowercase form is stored fails and
   leaves the table as it was; the stored hashes are lowercase, so no two
   rows hold the same hash. *)
C10_DuplicateInsertRejected ==
    [][ /\ ( /\ dao' # Null
             /\ dao' # dao \/ tx_local' # tx_local
             /\ Get(dao').op = "insert_tx_local"
             /\ [Get(dao').hash EXCEPT !.cs = "lower"] \in DOMAIN tx_local )
           => ~Get(dao').ok /\ tx_local' = tx_local
        /\ \A k \in DOMAIN tx_local' : k.cs = "lower"
      ]_vars

C10_Witness ==
    /\ dao # Null
    /\ Get(dao).op = "insert_tx_local" /\ ~Get(dao).ok
    /\ Get(dao).hash.cs = "mixed" /\ Get(dao).status = "SIGNED"
    /\ tx_local[[Get(dao).hash EXCEPT !.cs = "lower"]].status = "CONFIRMED"

(* C11: wait_receipt sets a row to CONFIRMED only when the receipt it got
   has status 1; with a receipt of status 0 or without status, or with no
   receipt, it leaves the ledger as it was; and it returns what the lookup
   gave (the receipt or None). *)
C11_ConfirmedOnlyOnSuccess ==
    [][ /\ \A w \in Waiters :
              (wpc[w] = "got" /\ wpc'[w] = "done")
                 => /\ wret'[w] = wret[w]
                    /\ (wret[w] = Null \/ Get(wret[w]).status # Some(1))
                          => tx_local' = tx_local
        /\ \A k \in DOMAIN tx_local' :
              (tx_local'[k].status = "CONFIRMED"
                  /\ (k \notin DOMAIN tx_local \/ tx_local[k].status # "CONFIRMED"))
                 => \E w \in Waiters :
                       /\ wpc[w] = "got" /\ wpc'[w] = "done"
                       /\ wret[w] # Null /\ Get(wret[w]).status = Some(1)
                       /\ k = Lower(Get(wreq[w]).tx_hash)
      ]_vars

C11_Witness ==
    \E w \in Waiters :
        /\ wpc[w] = "done" /\ wret[w] # Null /\ Get(wret[w]).status = Some(0)
        /\ Lower(Get(wreq[w]).tx_hash) \in DOMAIN tx_local
        /\ tx_local[Lower(Get(wreq[w]).tx_hash)].status = "BROADCAST"

(* C12: when withdraw_eth returns hash h, the row looked up by h is
   BROADCAST with submitted_at set, whichever hash send_raw_tx reported; and
   when a wait_receipt(h) called with a returned hash gets a receipt of
   status 1, the row looked up by h is CONFIRMED. *)
C12_ReturnedHashIsBroadcast ==
    [][ /\ \A p \in Procs :
              (pc[p] = "update" /\ pc'[p] = "done")
                 => LET r == get_tx(tx_local', Get(ret'[p]).hash)
                    IN  /\ r # Null
                        /\ Get(r).status = "BROADCAST"
                        /\ Get(r).submitted_at # Null
        /\ \A w \in Waiters :
              (/\ wpc[w] = "got" /\ wpc'[w] = "done"
               /\ \E p \in Procs : Returned(p) /\ Get(ret[p]).hash = Get(wreq[w]).tx_hash
               /\ wret[w] # Null /\ Get(wret[w]).status = Some(1))
                 => LET r == get_tx(tx_local', Get(wreq[w]).tx_hash)
                    IN  r # Null /\ Get(r).status = "CONFIRMED"
      ]_vars

(* C13: when the deadline passes with no receipt, the wait ends with None,
   not with an error, and wait_receipt returns None leaving the ledger as it
   was: a BROADCAST row is still BROADCAST. *)
C13_TimeoutReturnsNone ==
    [][ \A w \in Waiters :
          /\ (wpc[w] = "poll" /\ now >= Get(wreq[w]).deadline /\ wpc'[w] # "poll")
                => wpc'[w] = "got" /\ wret'[w] = Null /\ tx_local' = tx_local
          /\ (wpc[w] = "got" /\ wret[w] = Null /\ wpc'[w] # "got")
                => /\ wpc'[w] = "done" /\ wret'[w] = Null
                   /\ tx_local' = tx_local
      ]_vars

C13_Witness ==
    \E w \in Waiters :
        /\ wpc[w] = "done" /\ wret[w] = Null
        /\ get_tx(tx_local, Get(wreq[w]).tx_hash) # Null
        /\ Get(get_tx(tx_local, Get(wreq[w]).tx_hash)).status = "BROADCAST"

(* C14: build_tx_1559 takes the nonce from the node's pending count alone,
   whatever the other withdrawal has built or stored, and step 4 stores a
   row under a new hash whatever nonces the ledger holds: nothing keeps two
   concurrent withdrawals from the same nonce. *)
C14_NoNonceReservation ==
    [][ \A p \in Procs :
          /\ (pc[p] = "idle" /\ pc'[p] = "guard")
                => Get(tx'[p])["nonce"] = pendingCount
          /\ (pc[p] = "insert" /\ pc'[p] \notin {"insert", "crashed"}
                /\ SignKey(p) \notin DOMAIN tx_local)
                => pc'[p] = "send" /\ SignKey(p) \in DOMAIN tx_local'
      ]_vars

C14_Witness ==
    /\ tx["p1"] # Null /\ tx["p2"] # Null
    /\ Get(tx["p1"])["nonce"] = Get(tx["p2"])["nonce"]
    /\ \E j, k \in DOMAIN tx_local :
          /\ j # k
          /\ tx_local[j].sender = tx_local[k].sender
          /\ tx_local[j].chain_id = tx_local[k].chain_id
          /\ tx_local[j].nonce = tx_local[k].nonce

(* C15: _ensure_eth_balance_enough raises INSUFFICIENT_FUNDS exactly when
   the balance is below value + gas_limit * max_fee_per_gas, and returns
   otherwise; a balance equal to that sum is accepted. *)
C15_EnsureBalanceExact ==
    (dao # Null /\ Get(dao).op = "_ensure_eth_balance_enough")
       => LET c == Get(dao)
              need == c.value_wei + c.gas_limit * c.max_fee_per_gas
          IN  /\ c.bal < need => c.raised = Some("INSUFFICIENT_FUNDS")
              /\ c.bal >= need => c.raised = Null

C15_Witness ==
    /\ dao # Null /\ Get(dao).op = "_ensure_eth_balance_enough"
    /\ Get(dao).gas_limit * Get(dao).max_fee_per_gas > 0 /\ Get(dao).value_wei > 0
    /\ Get(dao).bal = Get(dao).value_wei + Get(dao).gas_limit * Get(dao).max_fee_per_gas
    /\ Get(dao).raised = Null

(* C16: when the pending block has a base fee, suggest_fees_1559 returns
   maxFeePerGas = 2 * baseFeePerGas + maxPriorityFeePerGas, which is never
   below baseFeePerGas + maxPriorityFeePerGas. *)
C16_MaxFeeCoversBaseAndTip ==
    (dao # Null /\ Get(dao).op = "suggest_fees_1559" /\ Get(dao).base # Null)
       => LET f == Get(dao).result
          IN  /\ f.baseFeePerGas = Get(dao).base
              /\ f.maxFeePerGas = 2 * Get(f.baseFeePerGas) + f.maxPriorityFeePerGas
              /\ f.maxFeePerGas >= Get(f.baseFeePerGas) + f.maxPriorityFeePerGas

C16_Witness ==
    /\ dao # Null /\ Get(dao).op = "suggest_fees_1559"
    /\ Get(dao).base = Some(MaxBaseFee) /\ Get(dao).priority_fee = 30000
    /\ Get(dao).result.maxPriorityFeePerGas = MaxPriorityFee
    /\ Get(dao).result.maxFeePerGas = 2 * MaxBaseFee + MaxPriorityFee

(* C17: the gas of the draft is at least 21000 without call data and 50000
   with call data, whether the caller gave the gas limit, the estimate
   succeeded or the estimate failed; and with an estimate est it is at least
   1.5 * est. *)
C17_GasLimitFloor ==
    (dao # Null /\ Get(dao).op = "build_tx_1559")
       => LET c == Get(dao)
          IN  /\ c.gas >= (IF c.has_data THEN MinGasCall ELSE MinGasTransfer)
              /\ c.est # Null => 2 * c.gas >= 3 * Get(c.est)

(* the texts that denote a configured chain: its decimal id, its name and
   its aliases *)
Denoting(id) ==
    {<<Dec(id)>>} \cup
    CASE id = 1 -> { <<Word("ethereum"), Word(" "), Word("mainnet")>>, <<Word("ethereum")>>,
                     <<Word("eth")>>, <<Word("mainnet")>> }
      [] id = 8453 -> { <<Word("base"), Word(" "), Word("mainnet")>>, <<Word("base")>> }
      [] id = 84532 -> { <<Word("base"), Word(" "), Word("sepolia")>>,
                         <<Word("base"), Word("-"), Word("sepolia")>>, <<Word("basesepolia")>> }
      [] id = 11155111 -> { <<Word("sepolia")>>, <<Word("eth"), Word("-"), Word("sepolia")>> }
      [] OTHER -> {}

ConfiguredIds == {1, 8453, 84532, 11155111}

(* the identifier denotes the configured chain id, in any case, with or
   without surrounding whitespace *)
Denotes(chain, id) ==
    IF "int" \in DOMAIN chain THEN chain.int = id ELSE chain.body \in Denoting(id)

(* C18: resolve_chain_id returns the chain's id for its numeric id, its
   decimal string, its name and each of its aliases, in any letter case and
   with surrounding whitespace. *)
C18_ResolveSameChain ==
    (dao # Null /\ Get(dao).op = "resolve_chain_id")
       => \A id \in ConfiguredIds :
             Denotes(Get(dao).chain, id)
                => Get(dao).result.ok /\ Get(dao).result.id = id

C18_Witness ==
    /\ dao # Null /\ Get(dao).op = "resolve_chain_id"
    /\ Get(dao).chain = ChainStr(<<Word("base"), Word("-"), Word("sepolia")>>, "mixed", TRUE)
    /\ Get(dao).result = [ok |-> TRUE, id |-> 84532]

(* C19: resolve_chain_id returns an id only for an identifier of a
   configured chain, and for every other identifier, an unconfigured
   numeric id or numeric string included, it fails with the unknown-chain
   error that lists the known non-numeric identifiers. *)
C19_UnknownChainRejected ==
    (dao # Null /\ Get(dao).op = "resolve_chain_id")
       => LET c == Get(dao)
          IN  /\ c.result.ok => \E id \in ConfiguredIds : Denotes(c.chain, id) /\ c.result.id = id
              /\ (\A id \in ConfiguredIds : ~Denotes(c.chain, id))
                    => /\ ~c.result.ok
                       /\ c.result.error = "Unknown chain identifier"
                       /\ c.result.available =
                             {Key(b) : b \in UNION {Denoting(id) \ {<<Dec(id)>>} : id \in ConfiguredIds}}

(* C20: every call of the broadcaster's wait_receipt ends, with the receipt
   (FOUND) or with None (TIMED_OUT), whatever the lookups return or raise. *)
C20_WaitTerminates ==
    \A w \in Waiters : (wpc[w] = "poll") ~> (wpc[w] = "got")

C20_Witness ==
    \E w \in Waiters :
        /\ wpc[w] = "got" /\ wret[w] = Null
        /\ Get(wreq[w]).looked /\ Get(wreq[w]).poll_sec = 0
        /\ Get(wreq[w]).deadline > MaxTime

(* C21: inside the wait window a lookup that gives no receipt, whether it
   returned nothing, raised "not found" or raised another error, never ends
   the call: the call sleeps poll_sec and then polls again, or times out
   when the deadline has passed. *)
C21_LookupFailuresRetried ==
    [][ \A w \in Waiters :
          /\ (wpc[w] = "poll" /\ wpc'[w] # "poll" /\ now < Get(wreq[w]).deadline)
                => \/ wpc'[w] = "got" /\ wret'[w] # Null
                   \/ /\ wpc'[w] = "sleep"
                      /\ Get(wreq'[w]).wake = now + Get(wreq[w]).poll_sec
                      /\ wret'[w] = wret[w] /\ tx_local' = tx_local
          /\ (wpc[w] = "sleep" /\ wpc'[w] # "sleep")
                => wpc'[w] = "poll" /\ now >= Get(wreq[w]).wake
          /\ wpc'[w] \in {"idle", "poll", "sleep", "got", "done"}
      ]_vars

C21_Witness ==
    \E w \in Waiters :
        /\ wpc[w] = "poll" /\ now < Get(wreq[w]).deadline
        /\ Get(wreq[w]).last = Some("ConnectionError")
        /\ Get(wreq[w]).poll_sec = 1 /\ now = Get(wreq[w]).wake

(* C22: when the guard lets withdraw_eth go on to the signer, the balance it
   read covers value + gas * maxFeePerGas of the draft that is signed,
   whatever the base fee was at the builder's and at the guard's fee query. *)
C22_GuardCoversSignedCost ==
    [][ \A p \in Procs :
          (pc[p] = "check" /\ pc'[p] = "sign")
             => Get(chk[p]).bal >= Get(tx[p])["value"]
                                     + Get(tx[p])["gas"] * Get(tx[p])["maxFeePerGas"]
      ]_vars

StepOrder == <<"build", "guard", "sign", "insert", "send", "update">>

IsPrefix(s, t) == Len(s) <= Len(t) /\ \A i \in DOMAIN s : s[i] = t[i]

(* C23: the steps a withdrawal has executed are always the first steps of
   build, guard, sign, insert, send, update, each once and in that order; a
   withdrawal that returned executed all six; one that failed executes
   nothing more. *)
C23_StepsOnceInOrder ==
    [][ \A p \in Procs :
          /\ IsPrefix(steps'[p], StepOrder)
          /\ pc'[p] = "done" => steps'[p] = StepOrder
          /\ pc[p] \in {"failed", "done"} => steps'[p] = steps[p] /\ pc'[p] = pc[p]
          /\ (pc'[p] = "failed" /\ pc[p] # "failed")
                => Len(steps'[p]) = Len(steps[p]) + 1 /\ IsPrefix(steps[p], steps'[p])
      ]_vars

C23_Witness ==
    \E p, q \in Procs :
        /\ pc[p] = "done" /\ steps[p] = StepOrder
        /\ pc[q] = "failed" /\ steps[q] = <<"build", "guard", "sign", "insert">>

(* p and q signed the same transaction: their sign-time hashes are equal *)
SameSignedHash(p, q) ==
    p # q /\ signed[p] # Null /\ signed[q] # Null /\ Get(signed[p]).hash = Get(signed[q]).hash

PassedInsert(p) == Executed(p, "insert") /\ ~FailedAt(p, "insert")

(* C24: of two withdrawals that signed the same hash, at most one passes
   step 4 and reaches send_raw_tx; the insert of the other fails with the
   duplicate-key error, leaves the row as it was, and its withdrawal stops
   there without a broadcast. *)
C24_DuplicateHashAbortsSecond ==
    [][ \A p \in Procs :
          /\ (pc[p] = "insert" /\ pc'[p] \notin {"insert", "crashed"}
                /\ SignKey(p) \in DOMAIN tx_local)
                => /\ pc'[p] = "failed"
                   /\ ret'[p] = Some([kind |-> "raise", error |-> "IntegrityError"])
                   /\ tx_local' = tx_local /\ accepted' = accepted
          /\ \A q \in Procs :
                SameSignedHash(p, q)'
                   => /\ ~(PassedInsert(p) /\ PassedInsert(q))'
                      /\ ~(Executed(p, "send") /\ Executed(q, "send"))'
                      /\ ~(FailedAt(p, "insert") /\ FailedAt(q, "insert"))'
      ]_vars

C24_Witness ==
    \E p, q \in Procs :
        /\ SameSignedHash(p, q)
        /\ pc[p] = "done" /\ FailedAt(q, "insert") /\ RaisedError(q, "IntegrityError")
        /\ tx_local[SignKey(p)].status = "BROADCAST"

C26_StrategiesInOrder ==
    (dao # Null /\ Get(dao).op = "suggest_fees_1559" /\ "hint" \in DOMAIN Get(dao))
       => LET c == Get(dao)
          IN  IF c.hint # Null
              THEN c.queried = <<>> /\ c.priority_fee = Get(c.hint)
              ELSE IF c.max_fee # Null
              THEN c.queried = <<"max_priority_fee">> /\ c.priority_fee = Get(c.max_fee)
              ELSE IF FromHistory(c.history) # Null
              THEN /\ c.queried = <<"max_priority_fee", "fee_history">>
                   /\ c.priority_fee = Get(FromHistory(c.history))
              ELSE /\ c.queried = <<"max_priority_fee", "fee_history", "gas_price">>
                   /\ c.priority_fee = IF FromSpread(c.spread) # Null
                                       THEN Get(FromSpread(c.spread))
                                       ELSE DefaultPriorityFee

C26_Witness ==
    /\ dao # Null /\ Get(dao).op = "suggest_fees_1559" /\ "hint" \in DOMAIN Get(dao)
    /\ Get(dao).hint = Null /\ Get(dao).max_fee = Null /\ Get(dao).history = Some(<< <<1>>, <<>> >>)
    /\ Get(dao).spread = Some([gas_price |-> 40000, base_fee |-> 10])
    /\ Get(dao).queried = <<"max_priority_fee", "fee_history", "gas_price">>
    /\ Get(dao).priority_fee = 31992

(* C27: when the pending block has no base fee, suggest_fees_1559 returns
   the legacy pricing: no baseFeePerGas, maxPriorityFeePerGas 0 and
   maxFeePerGas the node's gas price, whatever the priority fee was. *)
C27_LegacyFallback ==
    (dao # Null /\ Get(dao).op = "suggest_fees_1559" /\ Get(dao).base = Null)
       => /\ Get(dao).result.baseFeePerGas = Null
          /\ Get(dao).result.maxPriorityFeePerGas = 0
          /\ Get(dao).result.maxFeePerGas = Get(dao).gas_price
          /\ Get(dao).result.legacyGasPrice = Get(dao).gas_price

C27_Witness ==
    /\ dao # Null /\ Get(dao).op = "suggest_fees_1559"
    /\ Get(dao).base = Null /\ Get(dao).gas_price = 3 /\ Get(dao).priority_fee = 20001
    /\ Get(dao).result.maxFeePerGas = 3

(* C28: a gas limit given by the caller goes into the draft as it is and
   estimate_gas is not called; without one, when the estimate fails, the
   gas is the fallback 50000 without call data and 100000 with call data. *)
C28_GasLimitBypassAndFallback ==
    (dao # Null /\ Get(dao).op = "build_tx_1559")
       => LET c == Get(dao)
          IN  /\ c.gas_limit # Null => c.gas = Get(c.gas_limit) /\ ~c.estimate_called
              /\ c.gas_limit = Null => c.estimate_called
              /\ (c.gas_limit = Null /\ c.est = Null)
                    => c.gas = (IF c.has_data THEN FallbackGasCall ELSE FallbackGasTransfer)

C28_Witness ==
    /\ dao # Null /\ Get(dao).op = "build_tx_1559"
    /\ Get(dao).gas_limit = Null /\ Get(dao).est = Null /\ Get(dao).has_data
    /\ Get(dao).gas = 100000

(* C29: the nonce of a draft is the node's pending transaction count at the
   build, whatever nonces the ledger holds for the sender; the build writes
   nothing to the ledger, and the nonce goes unchanged into the signed
   transaction and into the row. *)
C29_NonceFromPendingCount ==
    [][ \A p \in Procs :
          /\ (pc[p] = "idle" /\ pc'[p] = "guard")
                => /\ Get(tx'[p])["nonce"] = pendingCount
                   /\ tx_local' = tx_local /\ pendingCount' = pendingCount
          /\ (pc[p] = "sign" /\ pc'[p] = "insert")
                => Get(signed'[p]).tx["nonce"] = Get(tx[p])["nonce"]
          /\ (pc[p] = "insert" /\ pc'[p] = "send")
                => tx_local'[SignKey(p)].nonce = Get(tx[p])["nonce"]
      ]_vars

C29_Witness ==
    \E p \in Procs :
        /\ pc[p] \in {"guard", "check", "sign"} /\ tx[p] # Null
        /\ max_local_nonce(tx_local, Get(req[p]).from_addr, Get(req[p]).chain_id)
              = Some(Get(tx[p])["nonce"])

(* C30: the draft of build_tx_1559 has a key only for a value that is set:
   "to" exactly when a recipient is given, "data" exactly when the call data is
   none of None, "", "0x", "0X"; the keys from, value, chainId, nonce, gas,
   maxFeePerGas, maxPriorityFeePerGas and type are always there, and type is 2. *)
C30_DraftHasNoNullField ==
    (dao # Null /\ Get(dao).op = "build_tx_1559")
       => LET c == Get(dao)
          IN  /\ "to" \in c.fields <=> (c.to # Null /\ Get(c.to).body # "")
              /\ "data" \in c.fields <=> c.data \notin {Null, Some(""), Some("0x"), Some("0X")}
              /\ {"from", "value", "chainId", "nonce", "gas", "maxFeePerGas",
                   "maxPriorityFeePerGas", "type"} \subseteq c.fields
              /\ c.type = 2

C30_Witness ==
    /\ dao # Null /\ Get(dao).op = "build_tx_1559"
    /\ Get(dao).to = Null /\ Get(dao).data = Some("0x")
    /\ Get(dao).fields = {"from", "value", "chainId", "nonce", "gas", "maxFeePerGas",
                          "maxPriorityFeePerGas", "type"}

(* C31: _rpc_url_for_chain returns the value of RPC_URL__<chain_id> whenever
   that variable is set and non-empty; otherwise the first URL configured for
   the chain; and it fails with RPC_URL_NOT_SET when the variable is unset or
   empty and the chain is unknown or has no URL. *)
C31_RpcUrlOverrideThenConfig ==
    (dao # Null /\ Get(dao).op = "_rpc_url_for_chain")
       => LET c == Get(dao)
              over == c.env[c.chain_id]
              configured == {i \in DOMAIN c.chains :
                                /\ c.chains[i].chainId = c.chain_id
                                /\ c.chains[i].rpc # Null
                                /\ Len(Get(c.chains[i].rpc)) > 0}
          IN  /\ (over # Null /\ over # Some(""))
                    => c.result = [ok |-> TRUE, url |-> Get(over)]
              /\ ((over = Null \/ over = Some("")) /\ configured # {})
                    => \E i \in configured :
                          c.result = [ok |-> TRUE, url |-> Get(c.chains[i].rpc)[1]]
              /\ ((over = Null \/ over = Some("")) /\ configured = {})
                    => c.result = [ok |-> FALSE, error |-> "RPC_URL_NOT_SET"]

C31_Witness ==
    /\ dao # Null /\ Get(dao).op = "_rpc_url_for_chain"
    /\ Get(dao).chain_id = 8453 /\ Get(dao).env[8453] = Some("env8453")
    /\ Get(dao).chains # <<>> /\ Get(dao).chains[2].rpc # Null
    /\ Len(Get(Get(dao).chains[2].rpc)) = 2
    /\ Get(dao).result = [ok |-> TRUE, url |-> "env8453"]

(* C32: in every state reached through withdraw_eth and wait_receipt, a row
   of the ledger has a submitted_at exactly when its status is BROADCAST or
   CONFIRMED; a SIGNED row has none. *)
C32_SubmittedAtIffSent ==
    \A k \in DOMAIN tx_local :
        tx_local[k].submitted_at # Null <=> tx_local[k].status \in {"BROADCAST", "CONFIRMED"}

(* C33: update_tx_status called without a submitted_at leaves the
   submitted_at of the row as it was: the row that wait_receipt turns
   CONFIRMED keeps the submitted_at it got when it became BROADCAST. *)
C33_ConfirmKeepsSubmittedAt ==
    [][ \A w \in Waiters :
          (wpc[w] = "got" /\ wpc'[w] = "done")
             => /\ DOMAIN tx_local' = DOMAIN tx_local
                /\ \A k \in DOMAIN tx_local :
                      tx_local'[k].submitted_at = tx_local[k].submitted_at
      ]_vars

C33_Witness ==
    \E k \in DOMAIN tx_local :
        /\ tx_local[k].status = "CONFIRMED"
        /\ tx_local[k].submitted_at = Some(0)
        /\ tx_local[k].updated_at = 1

(* C34: update_tx_status writes only status, submitted_at and updated_at of
   the row with the given hash: sender, to, value_wei, nonce, chain_id and raw
   of that row, and every row of another hash, stay as they are; no call of
   the ledger removes a row, so the set of stored hashes never shrinks. *)
C34_UpdateFrame ==
    [][ /\ DOMAIN tx_local \subseteq DOMAIN tx_local'
        /\ \A k \in DOMAIN tx_local :
              /\ tx_local'[k].sender = tx_local[k].sender
              /\ tx_local'[k].to = tx_local[k].to
              /\ tx_local'[k].value_wei = tx_local[k].value_wei
              /\ tx_local'[k].nonce = tx_local[k].nonce
              /\ tx_local'[k].chain_id = tx_local[k].chain_id
              /\ tx_local'[k].raw = tx_local[k].raw
        /\ (dao' # Null /\ Get(dao').op = "update_tx_status")
              => /\ DOMAIN tx_local' = DOMAIN tx_local
                 /\ \A k \in DOMAIN tx_local :
                       k # [Get(dao').hash EXCEPT !.cs = "lower"] => tx_local'[k] = tx_local[k]
      ]_vars

C34_Witness ==
    /\ dao # Null /\ Get(dao).op = "update_tx_status"
    /\ Get(dao).hash = Hex(TRUE, "h1", "mixed") /\ Get(dao).status = "CONFIRMED"
    /\ DOMAIN tx_local = {Hex(TRUE, "h1", "lower"), Hex(TRUE, "h2", "lower")}
    /\ tx_local[Hex(TRUE, "h1", "lower")].status = "CONFIRMED"
    /\ tx_local[Hex(TRUE, "h1", "lower")].updated_at = 1
    /\ tx_local[Hex(TRUE, "h2", "lower")].status = "SIGNED"
    /\ tx_local[Hex(TRUE, "h2", "lower")].updated_at = 0

(* C35: update_tx_status for a hash that has no row does nothing and reports
   nothing: no error is raised, no row is created, no row is changed. *)
C35_UpdateAbsentIsNoOp ==
    [][ ( /\ dao' # Null /\ Get(dao').op = "update_tx_status"
          /\ [Get(dao').hash EXCEPT !.cs = "lower"] \notin DOMAIN tx_local )
           => Get(dao').ok /\ tx_local' = tx_local
      ]_vars

C35_Witness ==
    /\ dao # Null /\ Get(dao).op = "update_tx_status" /\ Get(dao).ok
    /\ Get(dao).hash = Hex(TRUE, "h2", "lower") /\ Get(dao).status = "BROADCAST"
    /\ DOMAIN tx_local = {Hex(TRUE, "h1", "lower")}
    /\ tx_local[Hex(TRUE, "h1", "lower")].status = "SIGNED"
    /\ now = 1 /\ tx_local[Hex(TRUE, "h1", "lower")].updated_at = 0

(* C36: wait_receipt looks a receipt up only while the time is before the
   deadline, so a call with timeout_sec <= 0 makes no lookup and returns None;
   the first lookup that yields a receipt ends the call with that receipt:
   no sleep and no lookup follows it. *)
C36_LookupOnlyBeforeDeadline ==
    [][ \A w \in Waiters :
          /\ ( /\ wpc[w] = "poll"
               /\ \/ wpc'[w] = "sleep"
                  \/ wpc'[w] = "got" /\ wret'[w] # Null )
                => now < Get(wreq[w]).deadline
          /\ (wpc[w] = "poll" /\ wpc'[w] # "poll" /\ Get(wreq[w]).timeout_sec <= 0)
                => wpc'[w] = "got" /\ wret'[w] = Null /\ ~Get(wreq'[w]).looked
          /\ (wpc[w] = "poll" /\ wpc'[w] = "got" /\ wret'[w] # Null)
                => wret'[w] = ReceiptOf(Get(wreq[w]).tx_hash) /\ wreq'[w] = wreq[w]
          /\ wpc[w] = "got"
                => wpc'[w] \in {"got", "done"} /\ wret'[w] = wret[w] /\ wreq'[w] = wreq[w]
          /\ wpc[w] = "done"
                => wpc'[w] = "done" /\ wret'[w] = wret[w] /\ wreq'[w] = wreq[w]
      ]_vars

C36_Witness ==
    \E w \in Waiters :
        /\ wpc[w] = "done" /\ wret[w] = Null
        /\ Get(wreq[w]).timeout_sec = 0 /\ ~Get(wreq[w]).looked
        /\ ReceiptOf(Get(wreq[w]).tx_hash) # Null
        /\ Get(ReceiptOf(Get(wreq[w]).tx_hash)).status = Some(1)

(* C37: max_local_nonce(sender, chain_id) returns None exactly when the ledger
   has no row of that sender, letter case ignored, on that chain; otherwise
   it returns the highest nonce of exactly those rows, whatever their status. *)
C37_MaxLocalNonce ==
    (dao # Null /\ Get(dao).op = "max_local_nonce")
       => LET c == Get(dao)
              rows == {k \in DOMAIN tx_local :
                          /\ tx_local[k].sender.body = c.sender.body
                          /\ tx_local[k].chain_id = c.chain_id}
          IN  /\ c.result = Null <=> rows = {}
              /\ rows # {}
                    => /\ \E k \in rows : c.result = Some(tx_local[k].nonce)
                       /\ \A k \in rows : tx_local[k].nonce <= Get(c.result)

C37_Witness ==
    /\ dao # Null /\ Get(dao).op = "max_local_nonce"
    /\ Get(dao).sender = Str("aa", "upper") /\ Get(dao).chain_id = 8453
    /\ Get(dao).result = Some(1)
    /\ \E k1, k2, k3 \in DOMAIN tx_local :
          /\ tx_local[k1].sender.body = "aa" /\ tx_local[k1].chain_id = 8453
          /\ tx_local[k1].nonce = 0 /\ tx_local[k1].status = "SIGNED"
          /\ tx_local[k2].sender.body = "aa" /\ tx_local[k2].chain_id = 8453
          /\ tx_local[k2].nonce = 1 /\ tx_local[k2].status = "CONFIRMED"
          /\ tx_local[k3].sender.body = "aa" /\ tx_local[k3].chain_id = 1
          /\ tx_local[k3].nonce = 2

====
